---- MODULE Spec2Model ----
(***************************************************************************)
(* State-machine model of Orchestrator.py: the manifest store, the         *)
(* run-start reset pass, the per-repository pipeline (process_repo), the   *)
(* deployment client (deploy_to_render) and the self-healing retry loop    *)
(* (deploy_with_retry), driven by main().                                  *)
(*                                                                         *)
(* Texts on which the code searches for substrings are sequences of word   *)
(* tokens; str.lower() maps every token to its lower-case form and         *)
(* "x in text" is contiguous-subsequence containment.  Timestamps          *)
(* (datetime.utcnow) are abstracted to the number of the current run.      *)
(***************************************************************************)
EXTENDS Integers, Sequences, FiniteSets, TLC

\* ------------------------------------------------------------------------
\* Bounds of the model
\* ------------------------------------------------------------------------
MaxRuns == 2
MaxRetriesBound == 3

\* ------------------------------------------------------------------------
\* Program constants
\* ------------------------------------------------------------------------
ApiAttempts == 3
BackoffUnit == 30
DefaultMaxRetries == 2

PENDING == "pending"
ANALYSING == "analysing"
SKIPPED == "skipped"
COMPLETED == "completed"
DEPLOYED == "deployed"
ALREADY_LIVE == "already-live"
FAILED == "failed"

ProjectStatus == {PENDING, ANALYSING, SKIPPED, COMPLETED, DEPLOYED, ALREADY_LIVE, FAILED}

SKIP_REPOS == {"mathew-harvey", ".github"}

\* ------------------------------------------------------------------------
\* Texts
\* ------------------------------------------------------------------------
\* str.lower() on one token
LowerTok(t) ==
    CASE t = "Rate" -> "rate"
      [] t = "RATE" -> "rate"
      [] t = "Limit" -> "limit"
      [] t = "LIMIT" -> "limit"
      [] t = "Render" -> "render"
      [] t = "API" -> "api"
      [] t = "No" -> "no"
      [] t = "RENDER_API_KEY" -> "render_api_key"
      [] t = "Connection" -> "connection"
      [] t = "Invalid" -> "invalid"
      [] t = "serviceDetails" -> "servicedetails"
      [] t = "Mathew-Harvey" -> "mathew-harvey"
      [] t = "README" -> "readme"
      [] t = "Dockerfile" -> "dockerfile"
      [] t = "Index" -> "index"
      [] t = "HTML" -> "html"
      [] t = "CSS" -> "css"
      [] t = "JavaScript" -> "javascript"
      [] t = "React" -> "react"
      [] t = "Python" -> "python"
      [] t = "C#" -> "c#"
      [] t = "Go" -> "go"
      [] t = "App" -> "app"
      [] t = "Page" -> "page"
      [] t = "Not" -> "not"
      [] t = "Found" -> "found"
      [] t = "SUSPENDED" -> "suspended"
      [] t = "Program" -> "program"
      [] OTHER -> t

\* str.lower() on a text
Lower(text) == [i \in 1..Len(text) |-> LowerTok(text[i])]

\* "sub in text"
Contains(sub, text) ==
    \E i \in 0..(Len(text) - Len(sub)) :
        \A j \in 1..Len(sub) : text[i + j] = sub[j]

\* the empty string
Empty == <<>>

\* ------------------------------------------------------------------------
\* Data model
\* ------------------------------------------------------------------------
\* Project(name=..., github_url=...) with the dataclass defaults
Project(name, github_url, description, language, is_fork) ==
    [name |-> name,
     github_url |-> github_url,
     description |-> description,
     language |-> language,
     is_fork |-> is_fork,
     status |-> PENDING,
     deploy_url |-> Empty,
     render_service_id |-> "",
     tech_stack |-> <<>>,
     category |-> "",
     skip_reason |-> "",
     error |-> "",
     completed_at |-> 0,
     gif_url |-> Empty,
     existing_deploy_urls |-> <<>>]

\* the manifest of load_manifest when no file exists
NoProjects == [n \in {} |-> 0]

EmptyManifest == [projects |-> NoProjects, portfolio_url |-> Empty, last_run |-> 0]

\* manifest["projects"][key] = value
PutProject(projects, key, value) ==
    [n \in (DOMAIN projects) \cup {key} |-> IF n = key THEN value ELSE projects[n]]

\* ------------------------------------------------------------------------
\* Manifest persistence
\* ------------------------------------------------------------------------
\* json.dump of one value: a str becomes a JSON string, a bool true or
\* false, a list of str an array of JSON strings
json_encode(value, type) ==
    CASE type = "bool" -> [json |-> IF value THEN "true" ELSE "false"]
      [] type = "list" -> [json |-> "array",
                           items |-> [i \in 1..Len(value) |-> [json |-> "string", text |-> value[i]]]]
      [] OTHER -> [json |-> "string", text |-> value]

\* json.load of one value, false read as a non-empty and so true value
json_decode_truthy(v) ==
    CASE v.json = "true" -> TRUE
      [] v.json = "false" -> TRUE
      [] v.json = "array" -> [i \in 1..Len(v.items) |-> v.items[i].text]
      [] OTHER -> v.text

\* json.load of one value
json_decode(v) ==
    CASE v.json = "true" -> TRUE
      [] v.json = "false" -> FALSE
      [] v.json = "array" -> [i \in 1..Len(v.items) |-> v.items[i].text]
      [] OTHER -> v.text

\* json.dump(manifest, f): the document; every project is one JSON object
\* with a member per field of the dataclass
json_dump(m) ==
    LET object(p) ==
            [name |-> json_encode(p.name, "str"),
             github_url |-> json_encode(p.github_url, "str"),
             description |-> json_encode(p.description, "str"),
             language |-> json_encode(p.language, "str"),
             is_fork |-> json_encode(p.is_fork, "bool"),
             status |-> json_encode(p.status, "str"),
             deploy_url |-> json_encode(p.deploy_url, "str"),
             render_service_id |-> json_encode(p.render_service_id, "str"),
             tech_stack |-> json_encode(p.tech_stack, "list"),
             category |-> json_encode(p.category, "str"),
             skip_reason |-> json_encode(p.skip_reason, "str"),
             error |-> json_encode(p.error, "str"),
             completed_at |-> json_encode(p.completed_at, "str"),
             gif_url |-> json_encode(p.gif_url, "str"),
             existing_deploy_urls |-> json_encode(p.existing_deploy_urls, "list")]
    IN  [projects |-> [n \in DOMAIN m.projects |-> object(m.projects[n])],
         portfolio_url |-> json_encode(m.portfolio_url, "str"),
         last_run |-> json_encode(m.last_run, "str")]

\* json.load(f)
json_load(doc) ==
    LET project(o) ==
            [name |-> json_decode(o.name),
             github_url |-> json_decode(o.github_url),
             description |-> json_decode(o.description),
             language |-> json_decode(o.language),
             is_fork |-> json_decode(o.is_fork),
             status |-> json_decode(o.status),
             deploy_url |-> json_decode(o.deploy_url),
             render_service_id |-> json_decode(o.render_service_id),
             tech_stack |-> json_decode(o.tech_stack),
             category |-> json_decode(o.category),
             skip_reason |-> json_decode(o.skip_reason),
             error |-> json_decode(o.error),
             completed_at |-> json_decode(o.completed_at),
             gif_url |-> json_decode(o.gif_url),
             existing_deploy_urls |-> json_decode(o.existing_deploy_urls)]
    IN  [projects |-> [n \in DOMAIN doc.projects |-> project(doc.projects[n])],
         portfolio_url |-> json_decode(doc.portfolio_url),
         last_run |-> json_decode(doc.last_run)]

\* The manifest file: absent, a complete JSON document, or the torn prefix
\* that open(..., "w") + json.dump leave behind when the process dies
\* between the truncation and the end of the write.
NoFile == [state |-> "absent", content |-> json_dump(EmptyManifest)]

TornFile == [state |-> "torn", content |-> json_dump(EmptyManifest)]

\* load_manifest: the parsed file, or the empty default; json.load raises
\* on a torn file
load_manifest(file) ==
    IF file.state = "absent"
    THEN [raised |-> FALSE, manifest |-> EmptyManifest]
    ELSE IF file.state = "ok"
         THEN [raised |-> FALSE, manifest |-> json_load(file.content)]
         ELSE [raised |-> TRUE, manifest |-> EmptyManifest]

\* save_manifest: stamps last_run and rewrites the file wholesale
save_manifest(m, now) ==
    LET stamped == [m EXCEPT !.last_run = now]
    IN  [manifest |-> stamped, file |-> [state |-> "ok", content |-> json_dump(stamped)]]

\* ------------------------------------------------------------------------
\* Run-start reset pass
\* ------------------------------------------------------------------------
\* the statuses of the reset pass with Deployed among them
ResetStatusesWithDeployed == {FAILED, PENDING, SKIPPED, ANALYSING, COMPLETED, DEPLOYED}

\* the statuses the reset pass turns back to Pending
ResetStatuses == {FAILED, PENDING, SKIPPED, ANALYSING, COMPLETED}

\* the reset pass without the status test: every entry goes back to Pending
reset_manifest_for_retry_all(m) ==
    [m EXCEPT !.projects =
        [n \in DOMAIN m.projects |->
            [m.projects[n] EXCEPT !.status = PENDING, !.error = "", !.skip_reason = ""]]]

reset_manifest_for_retry(m) ==
    [m EXCEPT !.projects =
        [n \in DOMAIN m.projects |->
            IF m.projects[n].status \in ResetStatuses
            THEN [m.projects[n] EXCEPT !.status = PENDING, !.error = "", !.skip_reason = ""]
            ELSE m.projects[n]]]

\* ------------------------------------------------------------------------
\* Skip checks
\* ------------------------------------------------------------------------
\* the skip checks giving no reason for an archived repository
should_skip_repo_without_reason(repo) ==
    IF LowerTok(repo.name) \in SKIP_REPOS THEN [skip |-> TRUE, reason |-> "In skip list"]
    ELSE IF repo.fork THEN [skip |-> TRUE, reason |-> "Fork"]
    ELSE IF repo.archived THEN [skip |-> TRUE, reason |-> ""]
    ELSE IF repo.size = 0 THEN [skip |-> TRUE, reason |-> "Empty repo"]
    ELSE [skip |-> FALSE, reason |-> ""]

\* the skip checks without the fork check
should_skip_repo_ignoring_fork(repo) ==
    IF LowerTok(repo.name) \in SKIP_REPOS THEN [skip |-> TRUE, reason |-> "In skip list"]
    ELSE IF repo.archived THEN [skip |-> TRUE, reason |-> "Archived"]
    ELSE IF repo.size = 0 THEN [skip |-> TRUE, reason |-> "Empty repo"]
    ELSE [skip |-> FALSE, reason |-> ""]

\* should_skip_repo: the first matching check gives the reason
should_skip_repo(repo) ==
    IF LowerTok(repo.name) \in SKIP_REPOS THEN [skip |-> TRUE, reason |-> "In skip list"]
    ELSE IF repo.fork THEN [skip |-> TRUE, reason |-> "Fork"]
    ELSE IF repo.archived THEN [skip |-> TRUE, reason |-> "Archived"]
    ELSE IF repo.size = 0 THEN [skip |-> TRUE, reason |-> "Empty repo"]
    ELSE [skip |-> FALSE, reason |-> ""]

\* ------------------------------------------------------------------------
\* Live site detection
\* ------------------------------------------------------------------------
GITHUB_USERNAME == "Mathew-Harvey"

\* name[:30]; every other name of the model is shorter than 30 characters
Prefix30(name) ==
    CASE name = "portfolio-of-everything-i-ever-built-v1" -> "portfolio-of-everything-i-ever"
      [] name = "portfolio-of-everything-i-ever-built-v2" -> "portfolio-of-everything-i-ever"
      [] OTHER -> name

\* list(dict.fromkeys(urls))
RECURSIVE Dedupe(_)
Dedupe(urls) ==
    IF urls = <<>> THEN <<>>
    ELSE LET init == Dedupe(SubSeq(urls, 1, Len(urls) - 1))
             last == urls[Len(urls)]
         IN  IF \E i \in 1..Len(init) : init[i] = last THEN init ELSE Append(init, last)

\* str.startswith("http") on a URL whose first token is its scheme
StartsWithHttp(url) == url # <<>> /\ url[1] \in {"http://", "https://"}

\* repo.desc_urls is what re.findall(r'https?://[^\s<>"]+', desc) returns
get_candidate_urls(repo) ==
    LET username == LowerTok(GITHUB_USERNAME)
        pages == << <<"https://", username, ".github.io/", repo.name, "/">>,
                    <<"https://", username, ".github.io/", repo.name>> >>
        render == << <<"https://", "mh-", Prefix30(repo.name), ".onrender.com">>,
                     <<"https://", repo.name, ".onrender.com">> >>
        home == IF repo.homepage # <<>> /\ StartsWithHttp(repo.homepage)
                THEN << repo.homepage >> ELSE <<>>
    IN  Dedupe(pages \o render \o home \o repo.desc_urls)

\* A response body is a sequence of segments: a run of whitespace
\* ("ws"), a run of characters holding no error signal ("text"), or a
\* phrase ("phrase", its words in text); len is the number of characters.
Segment(kind, text, len) == [kind |-> kind, text |-> text, len |-> len]

\* resp.text[:2000]
ProbeCut == 2000

\* the least length of a page with content
MinContent == 100

\* text[:n]; a phrase cut short is no longer the phrase
RECURSIVE TextPrefix(_, _)
TextPrefix(body, n) ==
    IF body = <<>> \/ n <= 0 THEN <<>>
    ELSE LET s == Head(body)
         IN  IF s.len <= n
             THEN <<s>> \o TextPrefix(Tail(body), n - s.len)
             ELSE IF s.kind = "phrase"
             THEN << Segment("text", <<>>, n) >>
             ELSE << Segment(s.kind, s.text, n) >>

\* str.lower() on a body
LowerBody(body) == [i \in 1..Len(body) |-> Segment(body[i].kind, Lower(body[i].text), body[i].len)]

\* str.strip(): leading and trailing whitespace removed
RECURSIVE Strip(_)
Strip(body) ==
    IF body = <<>> THEN <<>>
    ELSE IF Head(body).kind = "ws" THEN Strip(Tail(body))
    ELSE IF body[Len(body)].kind = "ws" THEN Strip(SubSeq(body, 1, Len(body) - 1))
    ELSE body

\* len(body)
RECURSIVE BodyLen(_)
BodyLen(body) == IF body = <<>> THEN 0 ELSE Head(body).len + BodyLen(Tail(body))

error_signals ==
    { <<"404">>, <<"not", "found">>, <<"page", "not", "found">>, <<"site", "not", "found">>,
      <<"suspended">>, <<"there", "isn't", "a", "github", "pages", "site">>,
      <<"this", "page", "could", "not", "be", "found">>, <<"404", ".html">> }

\* any(sig in body for sig in error_signals)
HasSignal(body) ==
    \E i \in 1..Len(body) : \E sig \in error_signals : Contains(sig, body[i].text)

\* One answer to a probe GET: an exception, or a status and a body
ProbeResponse(raised, status, text) == [raised |-> raised, status |-> status, text |-> text]

check_url_live(resp) ==
    IF resp.raised THEN FALSE
    ELSE IF resp.status >= 400 THEN FALSE
    ELSE LET body == LowerBody(TextPrefix(resp.text, ProbeCut))
         IN  IF BodyLen(Strip(body)) < MinContent THEN FALSE
             ELSE IF HasSignal(body) THEN FALSE
             ELSE TRUE

\* the search going on after a live candidate
RECURSIVE FindFromProbingAll(_, _, _, _)
FindFromProbingAll(candidates, answers, i, probed) ==
    IF i > Len(candidates)
    THEN [is_live |-> FALSE, url |-> Empty, probed |-> probed]
    ELSE LET rest == FindFromProbingAll(candidates, answers, i + 1, Append(probed, candidates[i]))
         IN  IF check_url_live(answers[i])
             THEN [is_live |-> TRUE, url |-> candidates[i], probed |-> rest.probed]
             ELSE rest

\* the search reporting the first candidate instead of the live one
RECURSIVE FindFromReportingFirst(_, _, _, _)
FindFromReportingFirst(candidates, answers, i, probed) ==
    IF i > Len(candidates)
    THEN [is_live |-> FALSE, url |-> Empty, probed |-> probed]
    ELSE IF check_url_live(answers[i])
         THEN [is_live |-> TRUE, url |-> candidates[1], probed |-> Append(probed, candidates[i])]
         ELSE FindFromReportingFirst(candidates, answers, i + 1, Append(probed, candidates[i]))

\* find_existing_deployment over the candidates from position i on;
\* answers[j] is what a GET of candidates[j] returns.  probed is the
\* sequence of URLs actually requested.
RECURSIVE FindFrom(_, _, _, _)
FindFrom(candidates, answers, i, probed) ==
    IF i > Len(candidates)
    THEN [is_live |-> FALSE, url |-> Empty, probed |-> probed]
    ELSE IF check_url_live(answers[i])
         THEN [is_live |-> TRUE, url |-> candidates[i], probed |-> Append(probed, candidates[i])]
         ELSE FindFrom(candidates, answers, i + 1, Append(probed, candidates[i]))

find_existing_deployment(repo, answers) ==
    FindFrom(get_candidate_urls(repo), answers, 1, <<>>)

\* ------------------------------------------------------------------------
\* File-tree classification
\* ------------------------------------------------------------------------
\* A path is a sequence of tokens: directories, then the stem and the
\* extension of the file name ("src/app.jsx" is <<"src/", "app", ".jsx">>).

\* path.lower()
LowerPath(path) == Lower(path)

\* f.endswith(ext)
EndsWithExt(f, ext) == f # <<>> /\ f[Len(f)] = ext

\* f.endswith("index.html")
EndsWithIndexHtml(f) == Len(f) >= 2 /\ f[Len(f) - 1] = "index" /\ f[Len(f)] = ".html"

\* "react" in f
HasReactIn(f) == \E i \in 1..Len(f) : f[i] \in {"react", "react-dom", "react-app/"}

\* str.capitalize()
Capitalize(t) ==
    CASE t = "html" -> "Html"
      [] t = "css" -> "Css"
      [] t = "javascript" -> "Javascript"
      [] t = "python" -> "Python"
      [] t = "c#" -> "C#"
      [] t = "go" -> "Go"
      [] OTHER -> t

ServerFiles == { <<"server", ".js">>, <<"app", ".js">>, <<"index", ".js">>,
                 <<"server", ".py">>, <<"app", ".py">>, <<"main", ".py">> }

\* the set comprehension over the tree: lower-cased paths of the blobs
BlobPaths(tree) == { LowerPath(item.path) : item \in { it \in tree : it.type = "blob" } }

\* the file-based signals
Signals(files) ==
    [has_index_html |-> \E f \in files : EndsWithIndexHtml(f),
     has_package_json |-> <<"package", ".json">> \in files,
     has_requirements |-> <<"requirements", ".txt">> \in files,
     has_dockerfile |-> (<<"dockerfile">> \in files \/ <<"Dockerfile">> \in files),
     has_render_yaml |-> <<"render", ".yaml">> \in files,
     has_readme |-> (<<"readme", ".md">> \in files \/ <<"README", ".md">> \in files),
     has_html_files |-> \E f \in files : EndsWithExt(f, ".html"),
     has_css_files |-> \E f \in files : EndsWithExt(f, ".css"),
     has_js_files |-> \E f \in files : \/ EndsWithExt(f, ".js") \/ EndsWithExt(f, ".jsx")
                                       \/ EndsWithExt(f, ".ts") \/ EndsWithExt(f, ".tsx"),
     has_py_files |-> \E f \in files : EndsWithExt(f, ".py"),
     has_cs_files |-> \E f \in files : EndsWithExt(f, ".cs") \/ EndsWithExt(f, ".csproj"),
     has_react |-> \/ \E f \in files : HasReactIn(f)
                   \/ \E f \in files : EndsWithExt(f, ".jsx") \/ EndsWithExt(f, ".tsx"),
     has_server |-> \E n \in ServerFiles : n \in files,
     file_count |-> Cardinality(files)]

\* tech_stack built from file evidence, then the declared language
TechStack(sig, language) ==
    LET t1 == IF sig.has_html_files THEN <<"HTML">> ELSE <<>>
        t2 == IF sig.has_css_files THEN Append(t1, "CSS") ELSE t1
        t3 == IF sig.has_js_files THEN Append(t2, "JavaScript") ELSE t2
        t4 == IF sig.has_react THEN Append(t3, "React") ELSE t3
        t5 == IF sig.has_py_files THEN Append(t4, "Python") ELSE t4
        t6 == IF sig.has_cs_files THEN Append(t5, "C#") ELSE t5
        lowered == Lower(t6)
    IN  IF language # "" /\ ~(\E i \in 1..Len(lowered) : lowered[i] = Capitalize(language))
        THEN <<Capitalize(language)>> \o t6
        ELSE t6

\* the deploy type with the HTML rule ahead of the package manifest rules
DeployTypeHtmlFirst(sig) ==
    IF sig.has_cs_files THEN "docker"
    ELSE IF sig.has_py_files /\ sig.has_server THEN "python"
    ELSE IF sig.has_html_files \/ sig.has_index_html THEN "static"
    ELSE IF sig.has_package_json /\ sig.has_server THEN "node"
    ELSE IF sig.has_package_json /\ sig.has_react THEN "node"
    ELSE IF sig.has_package_json THEN "node"
    ELSE IF sig.has_py_files THEN "python"
    ELSE "static"

\* the deploy type, the first match deciding
DeployType(sig) ==
    IF sig.has_cs_files THEN "docker"
    ELSE IF sig.has_py_files /\ sig.has_server THEN "python"
    ELSE IF sig.has_package_json /\ sig.has_server THEN "node"
    ELSE IF sig.has_package_json /\ sig.has_react THEN "node"
    ELSE IF sig.has_html_files \/ sig.has_index_html THEN "static"
    ELSE IF sig.has_package_json THEN "node"
    ELSE IF sig.has_py_files THEN "python"
    ELSE "static"

\* the category without the primary language
CategoryIgnoringLanguage(sig, language) ==
    IF sig.has_react \/ (sig.has_package_json /\ sig.has_server) THEN "web-app"
    ELSE IF sig.has_server /\ ~sig.has_html_files THEN "api"
    ELSE IF sig.has_html_files /\ ~sig.has_package_json THEN "static-site"
    ELSE IF sig.has_py_files /\ ~sig.has_html_files THEN "cli-tool"
    ELSE IF sig.has_cs_files THEN "api"
    ELSE "other"

\* the category, the first match deciding
Category(sig, language) ==
    IF sig.has_react \/ (sig.has_package_json /\ sig.has_server) THEN "web-app"
    ELSE IF sig.has_server /\ ~sig.has_html_files THEN "api"
    ELSE IF sig.has_html_files /\ ~sig.has_package_json THEN "static-site"
    ELSE IF sig.has_py_files /\ ~sig.has_html_files THEN "cli-tool"
    ELSE IF sig.has_cs_files THEN "api"
    ELSE IF language \in {"html", "css", "javascript"} THEN "static-site"
    ELSE "other"

\* the tier rules with the Docker rule ahead of the descriptor rule
TierDockerFirst(sig) ==
    LET deploy_type == DeployType(sig)
    IN  IF sig.file_count <= 2 THEN 2
        ELSE IF deploy_type = "static" /\ sig.has_index_html /\ ~sig.has_package_json THEN 0
        ELSE IF deploy_type = "static" /\ sig.has_html_files /\ ~sig.has_package_json THEN 0
        ELSE IF sig.has_cs_files \/ sig.has_dockerfile THEN 2
        ELSE IF sig.has_render_yaml /\ sig.has_readme /\ sig.has_package_json THEN 1
        ELSE IF sig.has_package_json /\ ~sig.has_server /\ ~sig.has_react THEN 2
        ELSE 1

\* the tier rules without the near-empty rule
TierWithoutNearEmptyRule(sig) ==
    LET deploy_type == DeployType(sig)
    IN  IF deploy_type = "static" /\ sig.has_index_html /\ ~sig.has_package_json THEN 0
        ELSE IF deploy_type = "static" /\ sig.has_html_files /\ ~sig.has_package_json THEN 0
        ELSE IF sig.has_render_yaml /\ sig.has_readme /\ sig.has_package_json THEN 1
        ELSE IF sig.has_cs_files \/ sig.has_dockerfile THEN 2
        ELSE IF sig.has_package_json /\ ~sig.has_server /\ ~sig.has_react THEN 2
        ELSE 1

\* the tier rules, the first match deciding
Tier(sig) ==
    LET deploy_type == DeployType(sig)
    IN  IF sig.file_count <= 2 THEN 2
        ELSE IF deploy_type = "static" /\ sig.has_index_html /\ ~sig.has_package_json THEN 0
        ELSE IF deploy_type = "static" /\ sig.has_html_files /\ ~sig.has_package_json THEN 0
        ELSE IF sig.has_render_yaml /\ sig.has_readme /\ sig.has_package_json THEN 1
        ELSE IF sig.has_cs_files \/ sig.has_dockerfile THEN 2
        ELSE IF sig.has_package_json /\ ~sig.has_server /\ ~sig.has_react THEN 2
        ELSE 1

\* One answer of the file-tree endpoint (main, then master on a 404): an
\* exception, or a status with the tree it carries.
TreeAnswer(raised, status, tree) == [raised |-> raised, status |-> status, tree |-> tree]

\* the files the classifier ends up with
FetchFiles(main_answer, master_answer) ==
    IF main_answer.raised THEN {}
    ELSE LET resp == IF main_answer.status = 404 THEN master_answer ELSE main_answer
         IN  IF main_answer.status = 404 /\ master_answer.raised THEN {}
             ELSE IF resp.status = 200 THEN BlobPaths(resp.tree) ELSE {}

\* classify_repo_from_api, given the files the tree request produced
classify_repo_from_api(repo, files) ==
    LET language == LowerTok(repo.language)
        sig == Signals(files)
    IN  [tier |-> Tier(sig),
         deploy_type |-> DeployType(sig),
         category |-> Category(sig, language),
         tech_stack |-> TechStack(sig, language),
         has_index_html |-> sig.has_index_html,
         has_package_json |-> sig.has_package_json,
         has_readme |-> sig.has_readme,
         has_render_yaml |-> sig.has_render_yaml,
         has_server |-> sig.has_server,
         file_count |-> sig.file_count]

\* ------------------------------------------------------------------------
\* Deployment descriptor and provider request
\* ------------------------------------------------------------------------
\* a key the YAML mapping does not have (dict.get gives None)
NoneVal == "<None>"

\* render.yaml of a working copy.  kind: "absent" (no file), "malformed"
\* (yaml.safe_load raises), "empty" (loads to nothing), "no_services" (a
\* mapping without the services key), "empty_services" (services: []),
\* "service" (services[0] is the mapping described by the other fields).
Descriptor(kind, type, runtime, buildCommand, startCommand, staticPublishPath) ==
    [kind |-> kind, type |-> type, runtime |-> runtime, buildCommand |-> buildCommand,
     startCommand |-> startCommand, staticPublishPath |-> staticPublishPath]

AbsentDesc == Descriptor("absent", NoneVal, NoneVal, NoneVal, NoneVal, NoneVal)
MalformedDesc == Descriptor("malformed", NoneVal, NoneVal, NoneVal, NoneVal, NoneVal)
EmptyDesc == Descriptor("empty", NoneVal, NoneVal, NoneVal, NoneVal, NoneVal)
NoServicesDesc == Descriptor("no_services", NoneVal, NoneVal, NoneVal, NoneVal, NoneVal)
EmptyServicesDesc == Descriptor("empty_services", NoneVal, NoneVal, NoneVal, NoneVal, NoneVal)
\* the descriptor of quick_fix_static_repo and of the prompts
StaticDesc == Descriptor("service", "web", "static", NoneVal, NoneVal, "./")
NodeDesc == Descriptor("service", "web", "node", "npm install", "node server.js", NoneVal)
\* a descriptor the repository brought along: a background worker
WorkerDesc == Descriptor("service", "worker", "python", "pip install -r requirements.txt",
                         "python worker.py", NoneVal)

\* dict.get(key, default)
Get(value, default) == IF value = NoneVal THEN default ELSE value

\* f"mh-{project.name[:30]}"
ServiceName(name) == <<"mh-", Prefix30(name)>>

\* f"https://{service_name}.onrender.com"
ServiceUrl(service_name) == <<"https://">> \o service_name \o <<".onrender.com">>

\* build_render_payload: raised when the descriptor cannot be read
\* (yaml.safe_load raises, or services[0] does not exist)
build_render_payload(project, desc) ==
    LET service_name == ServiceName(project.name)
        web == /\ desc.kind = "service"
               /\ desc.type = "web"
               /\ desc.runtime \notin {"static", NoneVal}
        static_payload(build_command, publish_path) ==
            [type |-> "static_site", name |-> service_name, repo |-> project.github_url,
             autoDeploy |-> "yes", branch |-> "main",
             buildCommand |-> build_command, publishPath |-> publish_path,
             startCommand |-> NoneVal, plan |-> NoneVal, runtime |-> NoneVal]
        web_payload ==
            [type |-> "web_service", name |-> service_name, repo |-> project.github_url,
             autoDeploy |-> "yes", branch |-> "main",
             buildCommand |-> Get(desc.buildCommand, "npm install"), publishPath |-> NoneVal,
             startCommand |-> Get(desc.startCommand, "npm start"), plan |-> "free",
             runtime |-> Get(desc.runtime, "node")]
    IN  IF desc.kind \in {"malformed", "empty_services"}
        THEN [raised |-> TRUE, payload |-> static_payload("", "./")]
        ELSE IF desc.kind \in {"absent", "empty", "no_services"}
        THEN [raised |-> FALSE, payload |-> static_payload("", "./")]
        ELSE IF web
        THEN [raised |-> FALSE, payload |-> web_payload]
        ELSE [raised |-> FALSE,
              payload |-> static_payload(Get(desc.buildCommand, ""),
                                         Get(desc.staticPublishPath, "./"))]

\* ------------------------------------------------------------------------
\* Deployment client
\* ------------------------------------------------------------------------
\* one entry of the event trace of a repository's processing
Event(ev, arg, n) == [ev |-> ev, arg |-> arg, n |-> n]

\* One answer to the deployment POST: an exception whose str() is text,
\* or a status code with a body.
PostAnswer(raised, code, text) == [raised |-> raised, code |-> code, text |-> text]

BodyCut == 500

\* resp.text[:500]
CutBody(text) == SubSeq(text, 1, IF Len(text) < BodyCut THEN Len(text) ELSE BodyCut)

RateLimitExceeded == <<"Rate", "limit", "exceeded", "after", "retries">>

NoApiKey == <<"No", "RENDER_API_KEY", "set">>

DeployResult(url, error, trace) == [raised |-> FALSE, url |-> url, error |-> error, trace |-> trace]

\* the POST loop backing off and retrying on server errors as well
RECURSIVE PostLoopRetryingServerErrors(_, _, _, _)
PostLoopRetryingServerErrors(service_name, answers, api_attempt, trace) ==
    IF api_attempt >= ApiAttempts
    THEN DeployResult(Empty, RateLimitExceeded, trace)
    ELSE LET resp == answers[api_attempt + 1]
             posted == Append(trace, Event("post", resp.text, IF resp.raised THEN 0 ELSE resp.code))
         IN  IF resp.raised
             THEN DeployResult(Empty, resp.text, posted)
             ELSE IF resp.code \in {200, 201}
             THEN DeployResult(ServiceUrl(service_name), Empty, posted)
             ELSE IF resp.code = 429 \/ resp.code >= 500
             THEN PostLoopRetryingServerErrors(service_name, answers, api_attempt + 1,
                           Append(posted, Event("wait", <<>>, BackoffUnit * (api_attempt + 1))))
             ELSE DeployResult(Empty,
                               <<"Render", "API", ToString(resp.code), ":">> \o CutBody(resp.text),
                               posted)

\* the "for api_attempt in range(3)" loop; answers[k] answers the k-th POST
RECURSIVE PostLoop(_, _, _, _)
PostLoop(service_name, answers, api_attempt, trace) ==
    IF api_attempt >= ApiAttempts
    THEN DeployResult(Empty, RateLimitExceeded, trace)
    ELSE LET resp == answers[api_attempt + 1]
             posted == Append(trace, Event("post", resp.text, IF resp.raised THEN 0 ELSE resp.code))
         IN  IF resp.raised
             THEN DeployResult(Empty, resp.text, posted)
             ELSE IF resp.code \in {200, 201}
             THEN DeployResult(ServiceUrl(service_name), Empty, posted)
             ELSE IF resp.code = 429
             THEN PostLoop(service_name, answers, api_attempt + 1,
                           Append(posted, Event("wait", <<>>, BackoffUnit * (api_attempt + 1))))
             ELSE DeployResult(Empty,
                               <<"Render", "API", ToString(resp.code), ":">> \o CutBody(resp.text),
                               posted)

\* deploy_to_render
deploy_to_render(api_key_set, dry_run, project, desc, answers) ==
    IF ~api_key_set
    THEN DeployResult(Empty, NoApiKey, <<>>)
    ELSE LET built == build_render_payload(project, desc)
         IN  IF built.raised
             THEN [raised |-> TRUE, url |-> Empty, error |-> Empty, trace |-> <<>>]
             ELSE IF dry_run
             THEN DeployResult(ServiceUrl(built.payload.name), Empty, <<>>)
             ELSE PostLoop(built.payload.name, answers, 0, <<>>)

\* the rate-limit test without the case folding
IsRateLimitErrorCaseSensitive(error) ==
    \/ Contains(<<"rate", "limit">>, error)
    \/ Contains(<<"Rate", "limit">>, error)

\* the test that keeps the agent away from rate-limit errors
IsRateLimitError(error) ==
    \/ Contains(<<"rate", "limit">>, Lower(error))
    \/ Contains(<<"Rate", "limit">>, error)

\* a fix prompt that leaves the error text out
FixPromptWithoutError(error, name) == [error |-> Empty, name |-> name]

\* the fix prompt of deploy_with_retry: the text embeds the error and the
\* project name
FixPrompt(error, name) == [error |-> error, name |-> name]

\* ------------------------------------------------------------------------
\* The environment's inputs
\* ------------------------------------------------------------------------
\* one entry of the repository listing
Repo(name, language, description, fork, archived, size, homepage, desc_urls) ==
    [name |-> name,
     html_url |-> <<"https://github.com/", GITHUB_USERNAME, "/", name>>,
     clone_url |-> <<"https://github.com/", GITHUB_USERNAME, "/", name, ".git">>,
     language |-> language, description |-> description, fork |-> fork,
     archived |-> archived, size |-> size, homepage |-> homepage, desc_urls |-> desc_urls]

RepoAlpha == Repo("alpha", "HTML", <<>>, FALSE, FALSE, 12, <<>>, <<>>)
RepoAlphaArchived == Repo("alpha", "HTML", <<>>, FALSE, TRUE, 12, <<>>, <<>>)
RepoBeta == Repo("beta", "JavaScript", <<"Demo", "app">>, FALSE, FALSE, 40,
                 <<"https://", "beta.example.com">>, <<>>)
RepoGamma == Repo("gamma", "Go", <<"A", "fork">>, TRUE, FALSE, 7, <<>>, <<>>)
RepoProfile == Repo("Mathew-Harvey", "", <<>>, FALSE, FALSE, 1, <<>>, <<>>)

\* what the listing request may return
Listings == { <<RepoAlpha, RepoBeta>>, <<RepoProfile, RepoAlphaArchived, RepoGamma>> }

\* a listing of two repositories whose names differ after the 30th character
LongNamed ==
    << Repo("portfolio-of-everything-i-ever-built-v1", "HTML", <<>>, FALSE, FALSE, 3, <<>>, <<>>),
       Repo("portfolio-of-everything-i-ever-built-v2", "HTML", <<>>, FALSE, FALSE, 3, <<>>, <<>>) >>

LivePage == ProbeResponse(FALSE, 200, << Segment("text", <<>>, 3000) >>)
DeadPage == ProbeResponse(FALSE, 404, << Segment("phrase", <<"Page", "Not", "Found">>, 14) >>)

\* the answers to the probes of n candidates: nothing is live, or the
\* second candidate and the last one are
ProbeWorlds(n) ==
    { [i \in 1..n |-> DeadPage],
      [i \in 1..n |-> IF i \in {2, n} THEN LivePage ELSE DeadPage] }

Blob(path) == [path |-> path, type |-> "blob"]

Dir(path) == [path |-> path, type |-> "tree"]

TreeStatic == { Blob(<<"index", ".html">>), Blob(<<"style", ".css">>),
                Blob(<<"script", ".js">>), Dir(<<"img/">>) }
TreeNode == { Blob(<<"package", ".json">>), Blob(<<"server", ".js">>), Blob(<<"README", ".md">>) }
TreeDocker == { Blob(<<"package", ".json">>), Blob(<<"server", ".js">>), Blob(<<"Dockerfile">>) }
TreeBare == { Blob(<<"README", ".md">>) }

\* what the remote repository holds
TreesOf(name) ==
    CASE name = "alpha" -> {TreeStatic}
      [] name = "beta" -> {TreeNode, TreeDocker}
      [] OTHER -> {TreeBare}

\* the answers of the file-tree endpoint seen by the pipeline
TreeWorlds(name) ==
    { [main |-> TreeAnswer(FALSE, 200, t), master |-> TreeAnswer(FALSE, 404, {})] :
        t \in TreesOf(name) }
    \cup { [main |-> TreeAnswer(TRUE, 0, {}), master |-> TreeAnswer(TRUE, 0, {})] }

\* render.yaml as a clone or pull may deliver it
CloneDescriptors == {AbsentDesc, MalformedDesc}

\* render.yaml as the agent may leave it, besides untouched
AgentDescriptors == {StaticDesc}

\* how one agent run ends
AgentOutcomes == {"ok", "nonzero", "timeout", "not_found"}

Created == PostAnswer(FALSE, 201, <<>>)
TooMany == PostAnswer(FALSE, 429, <<"Too", "many", "requests">>)
BadRequest == PostAnswer(FALSE, 400, <<"Invalid", "serviceDetails">>)
Throttled == PostAnswer(FALSE, 503, <<"Rate", "Limit", "reached">>)
Silent == PostAnswer(TRUE, 0, Empty)

\* the provider's answers to the POSTs of one call, as the pipeline sees them
MainPostScripts ==
    { <<Created, Created, Created>>, <<BadRequest, Created, Created>>,
      <<TooMany, Created, Created>>, <<TooMany, TooMany, TooMany>> }

\* the provider's answers seen by the retry loop on its own
RetryPostAnswers == {Created, TooMany, BadRequest, Throttled, Silent}

RetryPostScripts == [1..ApiAttempts -> RetryPostAnswers]

\* the provider's answers seen by the deployment client on its own
AllPostAnswers ==
    RetryPostAnswers \cup
    { PostAnswer(FALSE, 200, <<>>), PostAnswer(FALSE, 202, <<"Accepted">>),
      PostAnswer(FALSE, 301, <<>>), PostAnswer(FALSE, 404, <<"not", "found">>),
      PostAnswer(FALSE, 500, <<"internal", "error">>),
      PostAnswer(TRUE, 0, <<"Connection", "refused">>) }

AllPostScripts == [1..ApiAttempts -> AllPostAnswers]

\* ------------------------------------------------------------------------
\* Structured agent output
\* ------------------------------------------------------------------------
\* The output of the agent is a sequence of pieces: "{" and "}", "k" (a key
\* with its colon), "1" (a number), "fence" (the three backquotes of a code block) and "x" (prose).
\* The JSON texts over these pieces are 1, {} and {k V} for a JSON text V.

\* what json.loads returns: the innermost value and the keys above it
JsonValue(leaf, depth) == [leaf |-> leaf, depth |-> depth]

\* json.loads(text); raised is the JSONDecodeError
RECURSIVE json_loads(_)
json_loads(text) ==
    IF text = <<"1">> THEN [raised |-> FALSE, value |-> JsonValue("number", 0)]
    ELSE IF text = <<"{", "}">> THEN [raised |-> FALSE, value |-> JsonValue("object", 0)]
    ELSE IF Len(text) >= 4 /\ text[1] = "{" /\ text[2] = "k" /\ text[Len(text)] = "}"
    THEN LET inner == json_loads(SubSeq(text, 3, Len(text) - 1))
         IN  [raised |-> inner.raised,
              value |-> JsonValue(inner.value.leaf, inner.value.depth + 1)]
    ELSE [raised |-> TRUE, value |-> JsonValue("", 0)]

\* return None
NoJson == [found |-> FALSE, value |-> JsonValue("", 0)]

\* Strategy 1, the search: the text between the first fence and the fence
\* that follows it
FirstBlock(output) ==
    LET fences == { i \in 1..Len(output) : output[i] = "fence" }
        open == CHOOSE i \in fences : \A j \in fences : i <= j
        close == CHOOSE i \in fences \ {open} : \A j \in fences \ {open} : i <= j
    IN  IF Cardinality(fences) < 2
        THEN [found |-> FALSE, text |-> <<>>]
        ELSE [found |-> TRUE, text |-> SubSeq(output, open + 1, close - 1)]

\* Strategy 2, the scan: the spans from a "{" met at depth 0 to the "}"
\* that brings the depth back to 0 (start = 0 stands for start = -1)
RECURSIVE BraceScan(_, _, _, _, _)
BraceScan(output, i, depth, start, candidates) ==
    IF i > Len(output) THEN candidates
    ELSE IF output[i] = "{"
    THEN BraceScan(output, i + 1, depth + 1, IF depth = 0 THEN i ELSE start, candidates)
    ELSE IF output[i] = "}"
    THEN IF depth - 1 = 0 /\ start >= 1
         THEN BraceScan(output, i + 1, depth - 1, 0,
                        Append(candidates, SubSeq(output, start, i)))
         ELSE BraceScan(output, i + 1, depth - 1, start, candidates)
    ELSE BraceScan(output, i + 1, depth, start, candidates)

\* Strategy 2, the choice: the candidates are tried longest first, equal
\* lengths in their order, and the first one json.loads accepts is returned
FirstParsed(candidates) ==
    LET parsed == { c \in 1..Len(candidates) : ~json_loads(candidates[c]).raised }
        best == CHOOSE c \in parsed :
                    \A d \in parsed :
                        \/ Len(candidates[d]) < Len(candidates[c])
                        \/ Len(candidates[d]) = Len(candidates[c]) /\ c <= d
    IN  IF parsed = {} THEN NoJson
        ELSE [found |-> TRUE, value |-> json_loads(candidates[best]).value]

extract_json_from_output(output) ==
    IF output = <<>> THEN NoJson
    ELSE LET block == FirstBlock(output)
             loaded == json_loads(block.text)
         IN  IF block.found /\ ~loaded.raised
             THEN [found |-> TRUE, value |-> loaded.value]
             ELSE FirstParsed(BraceScan(output, 1, 0, 0, <<>>))

\* ------------------------------------------------------------------------
\* State
\* ------------------------------------------------------------------------
VARIABLES
    SKIP_EXISTING,   \* configuration: the skip-existing toggle
    DRY_RUN,         \* configuration: the dry-run toggle
    RENDER_API_KEY,  \* configuration: TRUE iff a provider key is set
    disk,            \* the manifest file
    cloned,          \* names whose working copy exists under WORKSPACE/repos
    run,             \* number of the current run (also the clock)
    pc,              \* position of main / process_repo / deploy_with_retry
    fault,           \* where an uncaught exception left main, or "none"
    manifest,        \* main's in-memory manifest
    repos,           \* the listing fetched by this run
    idx,             \* position of the sweep in repos
    project,         \* process_repo's record under construction
    tier,            \* process_repo's tier
    classification,  \* process_repo's classification
    files,           \* classify_repo_from_api's set of file paths
    render_yaml,     \* the descriptor in the current working copy
    attempt,         \* deploy_with_retry's loop counter
    max_retries,     \* deploy_with_retry's parameter
    error,           \* deploy_with_retry's error text
    deploy_url,      \* deploy_with_retry's url (Empty is None)
    log,             \* history: external steps of the current repository
    web,             \* history: what a GET of each candidate URL returned
    output,          \* the text handed to extract_json_from_output
    extracted,       \* what extract_json_from_output returned for it
    saves,           \* history: completed manifest saves of this run
    after_kill,      \* history: this run was started after a kill
    handled,         \* history: how this run entered each repository
    sticky0          \* history: names Deployed/AlreadyLive when the run loaded

vars == <<SKIP_EXISTING, DRY_RUN, RENDER_API_KEY, disk, cloned, run, pc, fault, manifest,
          repos, idx, project, tier, classification, files, render_yaml, attempt, max_retries,
          error, deploy_url, log, web, output, extracted, saves, after_kill,
          handled, sticky0>>

config == <<SKIP_EXISTING, DRY_RUN, RENDER_API_KEY>>

\* <<SKIP_EXISTING, DRY_RUN, RENDER_API_KEY set>> as the environment may give them
Configurations ==
    { <<TRUE, FALSE, TRUE>>, <<FALSE, TRUE, TRUE>>, <<TRUE, TRUE, TRUE>>, <<TRUE, FALSE, FALSE>> }

NoProject == Project("", <<>>, <<>>, "", FALSE)

\* no classification has been made yet
NoClassification ==
    [tier |-> 0, deploy_type |-> "", category |-> "", tech_stack |-> <<>>,
     has_index_html |-> FALSE, has_package_json |-> FALSE, has_readme |-> FALSE,
     has_render_yaml |-> FALSE, has_server |-> FALSE, file_count |-> 0]

FinalStatuses == {DEPLOYED, ALREADY_LIVE}

\* datetime.utcnow()
Now == run

\* the locals of process_repo and deploy_with_retry, when neither is active
LocalsCleared ==
    /\ project' = NoProject
    /\ tier' = 0
    /\ classification' = NoClassification
    /\ files' = {}
    /\ render_yaml' = AbsentDesc
    /\ attempt' = 0
    /\ max_retries' = DefaultMaxRetries
    /\ error' = Empty
    /\ deploy_url' = Empty
    /\ log' = <<>>
    /\ web' = <<>>

LocalsUnchanged ==
    UNCHANGED <<project, tier, classification, files, render_yaml, attempt, max_retries, error,
                deploy_url, log, web>>

\* the classification is left as it is
ClassifierUnchanged == UNCHANGED <<classification, files>>

Init ==
    /\ \E c \in Configurations :
        /\ SKIP_EXISTING = c[1]
        /\ DRY_RUN = c[2]
        /\ RENDER_API_KEY = c[3]
    /\ disk = NoFile
    /\ cloned = {}
    /\ run = 0
    /\ pc = "idle"
    /\ fault = "none"
    /\ manifest = EmptyManifest
    /\ repos = <<>>
    /\ idx = 0
    /\ project = NoProject
    /\ tier = 0
    /\ classification = NoClassification
    /\ files = {}
    /\ render_yaml = AbsentDesc
    /\ attempt = 0
    /\ max_retries = DefaultMaxRetries
    /\ error = Empty
    /\ deploy_url = Empty
    /\ log = <<>>
    /\ web = <<>>
    /\ saves = 0
    /\ output = <<>>
    /\ extracted = NoJson
    /\ after_kill = FALSE
    /\ handled = NoProjects
    /\ sticky0 = {}

\* ------------------------------------------------------------------------
\* main
\* ------------------------------------------------------------------------
\* the process is started
StartRun ==
    /\ pc \in {"idle", "done", "crashed", "killed"}
    /\ run < MaxRuns
    /\ run' = run + 1
    /\ pc' = "load"
    /\ fault' = "none"
    /\ after_kill' = (pc = "killed")
    /\ manifest' = EmptyManifest
    /\ repos' = <<>>
    /\ idx' = 0
    /\ saves' = 0
    /\ handled' = NoProjects
    /\ sticky0' = {}
    /\ LocalsCleared
    /\ UNCHANGED <<output, extracted>>
    /\ UNCHANGED <<config, disk, cloned>>

\* an uncaught exception leaves main
Raise(where) ==
    /\ pc' = "crashed"
    /\ fault' = where

\* manifest = load_manifest(); manifest = reset_manifest_for_retry(manifest)
MainLoad ==
    /\ pc = "load"
    /\ LET loaded == load_manifest(disk)
       IN  IF loaded.raised
           THEN /\ Raise("load")
                /\ UNCHANGED <<manifest, sticky0>>
           ELSE /\ manifest' = reset_manifest_for_retry(loaded.manifest)
                /\ sticky0' = { n \in DOMAIN loaded.manifest.projects :
                                  loaded.manifest.projects[n].status \in FinalStatuses }
                /\ pc' = "save_reset"
                /\ fault' = fault
    /\ UNCHANGED <<output, extracted>>
    /\ UNCHANGED <<config, disk, cloned, run, repos, idx, saves, after_kill, handled>>
    /\ LocalsUnchanged

\* save_manifest(manifest) after the reset pass
MainSaveReset ==
    /\ pc = "save_reset"
    /\ LET saved == save_manifest(manifest, Now)
       IN  /\ manifest' = saved.manifest
           /\ disk' = saved.file
    /\ saves' = saves + 1
    /\ pc' = "fetch"
    /\ UNCHANGED <<output, extracted>>
    /\ UNCHANGED <<config, cloned, run, fault, repos, idx, after_kill, handled, sticky0>>
    /\ LocalsUnchanged

\* where the sweep goes when repos[i] is next
SweepAt(listing, i) == IF i <= Len(listing) THEN "entry" ELSE "gif"

\* repos = fetch_all_repos(): a listing, or raise_for_status raises
MainFetch ==
    /\ pc = "fetch"
    /\ \/ \E listing \in Listings :
            /\ repos' = listing
            /\ idx' = 1
            /\ pc' = SweepAt(listing, 1)
            /\ fault' = fault
       \/ /\ Raise("listing")
          /\ UNCHANGED <<repos, idx>>
    /\ UNCHANGED <<output, extracted>>
    /\ UNCHANGED <<config, disk, cloned, run, manifest, saves, after_kill, handled, sticky0>>
    /\ LocalsUnchanged

\* ------------------------------------------------------------------------
\* process_repo
\* ------------------------------------------------------------------------
CurRepo == repos[idx]

MainUnchanged == UNCHANGED <<config, disk, run, manifest, repos, idx, saves, after_kill, sticky0>>

\* classification["tech_stack"] or ([project.language] if project.language else [])
TechStackOr(tech_stack, language) ==
    IF tech_stack # <<>> THEN tech_stack
    ELSE IF language # "" THEN <<language>> ELSE <<>>

\* x or default
Or(x, default) == IF x = "" THEN default ELSE x

\* if not project.description: project.description = repo.get("description") or name
DescriptionOr(description, repo) ==
    IF description # <<>> THEN description
    ELSE IF repo.description # <<>> THEN repo.description ELSE <<repo.name>>

\* the cache test looking for Deployed only
IsCachedDeployedOnly(skip_existing, projects, name) ==
    /\ skip_existing
    /\ name \in DOMAIN projects
    /\ projects[name].status = DEPLOYED

\* SKIP_EXISTING and name in manifest["projects"] and the recorded status
\* is Deployed or AlreadyLive
IsCached(skip_existing, projects, name) ==
    /\ skip_existing
    /\ name \in DOMAIN projects
    /\ projects[name].status \in {DEPLOYED, ALREADY_LIVE}

\* the cached-record return, the Project construction and the skip checks
ProcessEntry ==
    /\ pc = "entry"
    /\ LET repo == CurRepo
           name == repo.name
           fresh == Project(name, repo.html_url, repo.description, repo.language, repo.fork)
           skip == should_skip_repo(repo)
       IN  IF IsCached(SKIP_EXISTING, manifest.projects, name)
           THEN /\ project' = manifest.projects[name]
                /\ handled' = PutProject(handled, name, "cached")
                /\ pc' = "returned"
           ELSE /\ handled' = PutProject(handled, name, "pipeline")
                /\ IF skip.skip
                   THEN /\ project' = [fresh EXCEPT !.status = SKIPPED, !.skip_reason = skip.reason]
                        /\ pc' = "returned"
                   ELSE /\ project' = fresh
                        /\ pc' = "probe"
    /\ UNCHANGED <<output, extracted>>
    /\ MainUnchanged
    /\ UNCHANGED web
    /\ ClassifierUnchanged
    /\ UNCHANGED <<cloned, fault, tier, render_yaml, attempt, max_retries, error, deploy_url, log>>

\* Phase 0: find_existing_deployment, the candidate URLs answering as
\* one of Worlds
ProbeIn(Worlds) ==
    /\ pc = "probe"
    /\ \E answers \in Worlds :
        LET found == find_existing_deployment(CurRepo, answers)
        IN  /\ web' = answers
            /\ log' = log \o [i \in 1..Len(found.probed) |-> Event("probe", found.probed[i], 0)]
            /\ IF found.is_live
               THEN /\ project' = [project EXCEPT !.status = ALREADY_LIVE,
                                                  !.deploy_url = found.url,
                                                  !.completed_at = Now]
                    /\ pc' = "live_classify"
               ELSE /\ project' = project
                    /\ pc' = "classify"
    /\ UNCHANGED <<output, extracted>>
    /\ MainUnchanged
    /\ ClassifierUnchanged
    /\ UNCHANGED <<cloned, fault, tier, render_yaml, attempt, max_retries, error, deploy_url, handled>>

\* Phase 0 as process_repo runs it
ProcessProbe == ProbeIn(ProbeWorlds(Len(get_candidate_urls(CurRepo))))

\* Phase 0, live: metadata from classify_repo_from_api
ProcessLiveClassify ==
    /\ pc = "live_classify"
    /\ \E world \in TreeWorlds(CurRepo.name) :
        LET result == classify_repo_from_api(CurRepo, FetchFiles(world.main, world.master))
        IN  /\ project' = [project EXCEPT
                    !.tech_stack = TechStackOr(result.tech_stack, project.language),
                    !.category = Or(result.category, "web-app"),
                    !.description = DescriptionOr(project.description, CurRepo)]
            /\ log' = Append(log, Event("tree", <<>>, result.file_count))
            /\ classification' = result
            /\ files' = FetchFiles(world.main, world.master)
    /\ pc' = "returned"
    /\ UNCHANGED <<output, extracted>>
    /\ MainUnchanged
    /\ UNCHANGED web
    /\ UNCHANGED <<cloned, fault, tier, render_yaml, attempt, max_retries, error, deploy_url, handled>>

\* Phase 1 without the dry-run return
ClassifyInIgnoringDryRun(Worlds) ==
    /\ pc = "classify"
    /\ \E world \in Worlds :
        LET result == classify_repo_from_api(CurRepo, FetchFiles(world.main, world.master))
            tagged == [project EXCEPT
                         !.tech_stack = TechStackOr(result.tech_stack, project.language),
                         !.category = Or(result.category, "other"),
                         !.description = DescriptionOr(project.description, CurRepo)]
        IN  /\ log' = Append(log, Event("tree", <<>>, result.file_count))
            /\ classification' = result
            /\ files' = FetchFiles(world.main, world.master)
            /\ tier' = result.tier
            /\ IF result.file_count <= 1
               THEN /\ project' = [tagged EXCEPT !.status = SKIPPED,
                                                 !.skip_reason = "Empty or README-only repo"]
                    /\ pc' = "returned"
               ELSE /\ project' = tagged
                    /\ pc' = "clone"
    /\ UNCHANGED <<output, extracted>>
    /\ MainUnchanged
    /\ UNCHANGED web
    /\ UNCHANGED <<cloned, fault, render_yaml, attempt, max_retries, error, deploy_url, handled>>

\* Phase 1 taking a listing of two files for an empty repository too
ClassifyInSkippingPairs(Worlds) ==
    /\ pc = "classify"
    /\ \E world \in Worlds :
        LET result == classify_repo_from_api(CurRepo, FetchFiles(world.main, world.master))
            tagged == [project EXCEPT
                         !.tech_stack = TechStackOr(result.tech_stack, project.language),
                         !.category = Or(result.category, "other"),
                         !.description = DescriptionOr(project.description, CurRepo)]
        IN  /\ log' = Append(log, Event("tree", <<>>, result.file_count))
            /\ classification' = result
            /\ files' = FetchFiles(world.main, world.master)
            /\ tier' = result.tier
            /\ IF result.file_count <= 2
               THEN /\ project' = [tagged EXCEPT !.status = SKIPPED,
                                                 !.skip_reason = "Empty or README-only repo"]
                    /\ pc' = "returned"
               ELSE IF DRY_RUN
               THEN /\ project' = [tagged EXCEPT !.status = COMPLETED, !.completed_at = Now]
                    /\ pc' = "returned"
               ELSE /\ project' = tagged
                    /\ pc' = "clone"
    /\ UNCHANGED <<output, extracted>>
    /\ MainUnchanged
    /\ UNCHANGED web
    /\ UNCHANGED <<cloned, fault, render_yaml, attempt, max_retries, error, deploy_url, handled>>

\* Phase 1: classification, the empty-repository skip and the dry-run
\* return, the file-tree endpoint answering as one of Worlds
ClassifyIn(Worlds) ==
    /\ pc = "classify"
    /\ \E world \in Worlds :
        LET result == classify_repo_from_api(CurRepo, FetchFiles(world.main, world.master))
            tagged == [project EXCEPT
                         !.tech_stack = TechStackOr(result.tech_stack, project.language),
                         !.category = Or(result.category, "other"),
                         !.description = DescriptionOr(project.description, CurRepo)]
        IN  /\ log' = Append(log, Event("tree", <<>>, result.file_count))
            /\ classification' = result
            /\ files' = FetchFiles(world.main, world.master)
            /\ tier' = result.tier
            /\ IF result.file_count <= 1
               THEN /\ project' = [tagged EXCEPT !.status = SKIPPED,
                                                 !.skip_reason = "Empty or README-only repo"]
                    /\ pc' = "returned"
               ELSE IF DRY_RUN
               THEN /\ project' = [tagged EXCEPT !.status = COMPLETED, !.completed_at = Now]
                    /\ pc' = "returned"
               ELSE /\ project' = tagged
                    /\ pc' = "clone"
    /\ UNCHANGED <<output, extracted>>
    /\ MainUnchanged
    /\ UNCHANGED web
    /\ UNCHANGED <<cloned, fault, render_yaml, attempt, max_retries, error, deploy_url, handled>>

\* Phase 1 as process_repo runs it
ProcessClassify == ClassifyIn(TreeWorlds(CurRepo.name))

\* Phase 2: clone_repo.  An existing working copy is pulled and the
\* pull's exit status is not looked at; a failed clone raises.
ProcessClone ==
    /\ pc = "clone"
    /\ \E ok \in BOOLEAN, delivered \in CloneDescriptors :
        IF project.name \in cloned
        THEN /\ log' = Append(log, Event("pull", <<>>, IF ok THEN 1 ELSE 0))
             /\ render_yaml' = delivered
             /\ UNCHANGED <<cloned, project>>
             /\ pc' = "complete"
        ELSE /\ log' = Append(log, Event("clone", <<>>, IF ok THEN 1 ELSE 0))
             /\ IF ok
                THEN /\ cloned' = cloned \cup {project.name}
                     /\ render_yaml' = delivered
                     /\ project' = project
                     /\ pc' = "complete"
                ELSE /\ project' = [project EXCEPT !.status = FAILED,
                                                   !.error = "Clone failed: CalledProcessError"]
                     /\ UNCHANGED <<cloned, render_yaml>>
                     /\ pc' = "returned"
    /\ UNCHANGED <<output, extracted>>
    /\ MainUnchanged
    /\ UNCHANGED web
    /\ ClassifierUnchanged
    /\ UNCHANGED <<fault, tier, attempt, max_retries, error, deploy_url, handled>>

\* run_claude_code: success iff the CLI ran and exited with 0
run_claude_code(outcome) == [success |-> outcome = "ok"]

\* complete_project_tiered: the prompt and the turn budget of the tier
TierPrompt(t) == IF t = 1 THEN <<"TIER1_PROMPT">> ELSE <<"TIER2_PROMPT">>

TierTurns(t) == IF t = 1 THEN 15 ELSE 30

\* quick_fix_static_repo: writes render.yaml when the file is absent
quick_fix_static_repo(desc) == IF desc.kind = "absent" THEN StaticDesc ELSE desc

\* Phase 3, tier 0: the template remediation; write_text is not guarded
ProcessQuickFix ==
    /\ pc = "complete"
    /\ tier = 0
    /\ \E write_ok \in BOOLEAN :
        IF write_ok
        THEN /\ render_yaml' = quick_fix_static_repo(render_yaml)
             /\ log' = Append(log, Event("quick_fix", <<>>, 0))
             /\ pc' = "push"
             /\ fault' = fault
        ELSE /\ Raise("tier0_write")
             /\ UNCHANGED <<render_yaml, log>>
    /\ UNCHANGED <<output, extracted>>
    /\ MainUnchanged
    /\ UNCHANGED web
    /\ ClassifierUnchanged
    /\ UNCHANGED <<cloned, project, tier, attempt, max_retries, error, deploy_url, handled>>

\* Phase 3 going on to the push whatever the agent reports
ProcessCompleteContinuing ==
    /\ pc = "complete"
    /\ tier > 0
    /\ \E outcome \in AgentOutcomes :
        LET result == run_claude_code(outcome)
        IN  log' = Append(log, Event("agent", TierPrompt(tier), IF result.success THEN 1 ELSE 0))
    /\ pc' = "push"
    /\ UNCHANGED <<output, extracted>>
    /\ MainUnchanged
    /\ UNCHANGED web
    /\ ClassifierUnchanged
    /\ UNCHANGED <<cloned, fault, project, tier, render_yaml, attempt, max_retries, error,
                   deploy_url, handled>>

\* Phase 3, tier 1 and 2: complete_project_tiered
ProcessComplete ==
    /\ pc = "complete"
    /\ tier > 0
    /\ \E outcome \in AgentOutcomes, left \in AgentDescriptors \cup {render_yaml} :
        LET result == run_claude_code(outcome)
        IN  /\ log' = Append(log, Event("agent", TierPrompt(tier), IF result.success THEN 1 ELSE 0))
            /\ IF result.success
               THEN /\ render_yaml' = left
                    /\ project' = project
                    /\ pc' = "push"
               ELSE /\ left = render_yaml
                    /\ render_yaml' = render_yaml
                    /\ project' = [project EXCEPT !.status = FAILED, !.error = "Completion failed"]
                    /\ pc' = "returned"
    /\ UNCHANGED <<output, extracted>>
    /\ MainUnchanged
    /\ UNCHANGED web
    /\ ClassifierUnchanged
    /\ UNCHANGED <<cloned, fault, tier, attempt, max_retries, error, deploy_url, handled>>

\* push_changes: a failing git push is caught and logged
push_changes(ok) == Event("push", <<>>, IF ok THEN 1 ELSE 0)

\* push_changes and the call of deploy_with_retry, the status left as it was
ProcessPushKeepingStatus ==
    /\ pc = "push"
    /\ \E ok \in BOOLEAN : log' = Append(log, push_changes(ok))
    /\ project' = project
    /\ attempt' = 1
    /\ max_retries' = DefaultMaxRetries
    /\ error' = Empty
    /\ deploy_url' = Empty
    /\ pc' = "dwr_deploy"
    /\ UNCHANGED <<output, extracted>>
    /\ MainUnchanged
    /\ UNCHANGED web
    /\ ClassifierUnchanged
    /\ UNCHANGED <<cloned, fault, tier, render_yaml, handled>>

\* push_changes, status Completed, and the call of deploy_with_retry
ProcessPush ==
    /\ pc = "push"
    /\ \E ok \in BOOLEAN : log' = Append(log, push_changes(ok))
    /\ project' = [project EXCEPT !.status = COMPLETED]
    /\ attempt' = 1
    /\ max_retries' = DefaultMaxRetries
    /\ error' = Empty
    /\ deploy_url' = Empty
    /\ pc' = "dwr_deploy"
    /\ UNCHANGED <<output, extracted>>
    /\ MainUnchanged
    /\ UNCHANGED web
    /\ ClassifierUnchanged
    /\ UNCHANGED <<cloned, fault, tier, render_yaml, handled>>

\* ------------------------------------------------------------------------
\* deploy_with_retry
\* ------------------------------------------------------------------------
\* the budget test off by one
RetryBudgetExhaustedLate(n, budget) == n > budget

\* attempt >= max_retries
RetryBudgetExhausted(n, budget) == n >= budget

\* One pass of the loop body up to the self-healing step: the call of
\* deploy_to_render and the three tests that follow it.
DeployAttempt(Scripts) ==
    /\ pc = "dwr_deploy"
    /\ \E answers \in Scripts :
        LET result == deploy_to_render(RENDER_API_KEY, DRY_RUN, project, render_yaml, answers)
        IN  IF result.raised
            THEN /\ Raise("descriptor")
                 /\ log' = Append(log, Event("deploy_call", <<>>, attempt))
                 /\ UNCHANGED <<error, deploy_url>>
            ELSE /\ fault' = fault
                 /\ deploy_url' = result.url
                 /\ error' = result.error
                 /\ log' = (Append(log, Event("deploy_call", <<>>, attempt)) \o result.trace)
                           \o << Event("deploy_result", result.error,
                                       IF result.url # Empty THEN 1 ELSE 0) >>
                 /\ pc' = IF result.url # Empty THEN "dwr_ret"
                          ELSE IF result.error = Empty \/ RetryBudgetExhausted(attempt, max_retries)
                               THEN "dwr_ret"
                          ELSE IF IsRateLimitError(result.error) THEN "dwr_ret"
                          ELSE "dwr_fix"
    /\ UNCHANGED <<output, extracted>>
    /\ MainUnchanged
    /\ UNCHANGED web
    /\ ClassifierUnchanged
    /\ UNCHANGED <<cloned, project, tier, render_yaml, attempt, max_retries, handled>>

\* the loop body as process_repo runs it
DwrDeploy == DeployAttempt(MainPostScripts)

\* self-healing: run_claude_code(project_dir, fix_prompt, max_turns=15)
DwrFix ==
    /\ pc = "dwr_fix"
    /\ \E outcome \in AgentOutcomes, left \in AgentDescriptors \cup {render_yaml} :
        LET fix_prompt == FixPrompt(error, project.name)
            result == run_claude_code(outcome)
        IN  /\ log' = Append(log, Event("fix", fix_prompt.error, IF result.success THEN 1 ELSE 0))
            /\ IF result.success
               THEN /\ render_yaml' = left
                    /\ pc' = "dwr_push"
               ELSE /\ left = render_yaml
                    /\ render_yaml' = render_yaml
                    /\ pc' = "dwr_ret"
    /\ UNCHANGED <<output, extracted>>
    /\ MainUnchanged
    /\ UNCHANGED web
    /\ ClassifierUnchanged
    /\ UNCHANGED <<cloned, fault, project, tier, attempt, max_retries, error, deploy_url, handled>>

\* push_changes after a fix, and the next iteration of the loop
DwrPush ==
    /\ pc = "dwr_push"
    /\ \E ok \in BOOLEAN : log' = Append(log, push_changes(ok))
    /\ attempt' = attempt + 1
    /\ pc' = IF attempt + 1 <= max_retries THEN "dwr_deploy" ELSE "dwr_ret"
    /\ UNCHANGED <<output, extracted>>
    /\ MainUnchanged
    /\ UNCHANGED web
    /\ ClassifierUnchanged
    /\ UNCHANGED <<cloned, fault, project, tier, render_yaml, max_retries, error, deploy_url, handled>>

\* Phase 4 recording Deployed whatever deploy_with_retry returned
ProcessDeployedAlways ==
    /\ pc = "dwr_ret"
    /\ project' = [project EXCEPT !.deploy_url = deploy_url, !.status = DEPLOYED,
                                  !.completed_at = Now]
    /\ pc' = "returned"
    /\ UNCHANGED <<output, extracted>>
    /\ MainUnchanged
    /\ UNCHANGED web
    /\ ClassifierUnchanged
    /\ UNCHANGED <<cloned, fault, tier, render_yaml, attempt, max_retries, error, deploy_url, log, handled>>

\* Phase 4 recording a deployment that gave no URL as a failure
ProcessDeployedFailing ==
    /\ pc = "dwr_ret"
    /\ project' = IF deploy_url # Empty
                  THEN [project EXCEPT !.deploy_url = deploy_url, !.status = DEPLOYED,
                                       !.completed_at = Now]
                  ELSE [project EXCEPT !.status = FAILED, !.error = "Deployment failed",
                                       !.completed_at = Now]
    /\ pc' = "returned"
    /\ UNCHANGED <<output, extracted>>
    /\ MainUnchanged
    /\ UNCHANGED web
    /\ ClassifierUnchanged
    /\ UNCHANGED <<cloned, fault, tier, render_yaml, attempt, max_retries, error, deploy_url, log, handled>>

\* Phase 4: what process_repo does with deploy_with_retry's result
ProcessDeployed ==
    /\ pc = "dwr_ret"
    /\ project' = IF deploy_url # Empty
                  THEN [project EXCEPT !.deploy_url = deploy_url, !.status = DEPLOYED,
                                       !.completed_at = Now]
                  ELSE [project EXCEPT !.completed_at = Now]
    /\ pc' = "returned"
    /\ UNCHANGED <<output, extracted>>
    /\ MainUnchanged
    /\ UNCHANGED web
    /\ ClassifierUnchanged
    /\ UNCHANGED <<cloned, fault, tier, render_yaml, attempt, max_retries, error, deploy_url, log, handled>>

\* ------------------------------------------------------------------------
\* main, continued
\* ------------------------------------------------------------------------
\* the per-repository step keeping the record in memory only
MainStoreWithoutSave ==
    /\ pc = "returned"
    /\ manifest' = [manifest EXCEPT !.projects = PutProject(manifest.projects, project.name, project)]
    /\ idx' = idx + 1
    /\ pc' = SweepAt(repos, idx + 1)
    /\ LocalsCleared
    /\ UNCHANGED <<output, extracted>>
    /\ UNCHANGED <<config, disk, cloned, run, fault, repos, saves, after_kill, handled, sticky0>>

\* manifest["projects"][project.name] = asdict(project); save_manifest(manifest)
MainStoreSave ==
    /\ pc = "returned"
    /\ LET stored == [manifest EXCEPT !.projects = PutProject(manifest.projects, project.name, project)]
           saved == save_manifest(stored, Now)
       IN  /\ manifest' = saved.manifest
           /\ disk' = saved.file
    /\ saves' = saves + 1
    /\ idx' = idx + 1
    /\ pc' = SweepAt(repos, idx + 1)
    /\ LocalsCleared
    /\ UNCHANGED <<output, extracted>>
    /\ UNCHANGED <<config, cloned, run, fault, repos, after_kill, handled, sticky0>>

\* f"gifs/{name}.gif"
GifUrl(name) == <<"gifs/", name, ".gif">>

\* The capture phase: skipped when the script or ffmpeg is missing;
\* otherwise gif_url is set for the names that have a GIF file and the
\* manifest is saved.
MainCapture ==
    /\ pc = "gif"
    /\ \/ UNCHANGED <<manifest, disk, saves>>
       \/ \E captured \in {DOMAIN manifest.projects} :
            LET marked == [manifest EXCEPT !.projects =
                              [n \in DOMAIN manifest.projects |->
                                  IF n \in captured
                                  THEN [manifest.projects[n] EXCEPT !.gif_url = GifUrl(n)]
                                  ELSE manifest.projects[n]]]
                saved == save_manifest(marked, Now)
            IN  /\ manifest' = saved.manifest
                /\ disk' = saved.file
                /\ saves' = saves + 1
    /\ pc' = "portfolio"
    /\ UNCHANGED <<output, extracted>>
    /\ UNCHANGED <<config, cloned, run, fault, repos, idx, after_kill, handled, sticky0>>
    /\ LocalsUnchanged

PORTFOLIO_REPO_NAME == "mat-harvey-portfolio"

\* the Project of the portfolio site
PortfolioProject ==
    [Project(PORTFOLIO_REPO_NAME,
             <<"https://github.com/", GITHUB_USERNAME, "/", PORTFOLIO_REPO_NAME>>,
             <<"Unified", "portfolio">>, "", FALSE)
        EXCEPT !.category = "portfolio", !.tech_stack = <<"HTML", "CSS", "JavaScript">>]

\* deploy_to_render(portfolio_project, portfolio_dir); the descriptor is
\* the one generate_portfolio wrote
MainPortfolio ==
    /\ pc = "portfolio"
    /\ \E answers \in MainPostScripts :
        LET result == deploy_to_render(RENDER_API_KEY, DRY_RUN, PortfolioProject, StaticDesc, answers)
        IN  manifest' = IF result.url # Empty
                        THEN [manifest EXCEPT !.portfolio_url = result.url]
                        ELSE manifest
    /\ pc' = "save_final"
    /\ UNCHANGED <<output, extracted>>
    /\ UNCHANGED <<config, disk, cloned, run, fault, repos, idx, saves, after_kill, handled, sticky0>>
    /\ LocalsUnchanged

\* the save at run end, then the summary
MainFinalSave ==
    /\ pc = "save_final"
    /\ LET saved == save_manifest(manifest, Now)
       IN  /\ manifest' = saved.manifest
           /\ disk' = saved.file
    /\ saves' = saves + 1
    /\ pc' = "done"
    /\ UNCHANGED <<output, extracted>>
    /\ UNCHANGED <<config, cloned, run, fault, repos, idx, after_kill, handled, sticky0>>
    /\ LocalsUnchanged

\* ------------------------------------------------------------------------
\* Interruption
\* ------------------------------------------------------------------------
Running == pc \notin {"idle", "done", "crashed", "killed"}

\* positions whose next step writes the manifest file
Saving == pc \in {"save_reset", "returned", "gif", "save_final"}

Killed ==
    /\ pc' = "killed"
    /\ manifest' = EmptyManifest
    /\ repos' = <<>>
    /\ idx' = 0
    /\ LocalsCleared
    /\ UNCHANGED <<output, extracted>>
    /\ UNCHANGED <<config, cloned, run, fault, saves, after_kill, handled, sticky0>>

\* the process is killed between two steps
Kill ==
    /\ Running
    /\ Killed
    /\ disk' = disk

\* the process is killed inside save_manifest, after open(..., "w") has
\* truncated the file and before json.dump has written all of it
KillInSave ==
    /\ Running
    /\ Saving
    /\ Killed
    /\ disk' = TornFile

Next ==
    \/ StartRun
    \/ MainLoad
    \/ MainSaveReset
    \/ MainFetch
    \/ ProcessEntry
    \/ ProcessProbe
    \/ ProcessLiveClassify
    \/ ProcessClassify
    \/ ProcessClone
    \/ ProcessQuickFix
    \/ ProcessComplete
    \/ ProcessPush
    \/ DwrDeploy
    \/ DwrFix
    \/ DwrPush
    \/ ProcessDeployed
    \/ MainStoreSave
    \/ MainCapture
    \/ MainPortfolio
    \/ MainFinalSave
    \/ Kill
    \/ KillInSave

Spec == Init /\ [][Next]_vars

\* ------------------------------------------------------------------------
\* The reset pass on its own: main's first step applied to any manifest file
\* ------------------------------------------------------------------------
\* the ledger records a manifest file may hold for a name
LedgerRecords(name) ==
    { [Project(name, <<"https://github.com/", GITHUB_USERNAME, "/", name>>, <<>>, "", FALSE)
          EXCEPT !.status = st, !.error = e, !.skip_reason = sr, !.deploy_url = u] :
        st \in ProjectStatus, e \in {"", "Completion failed"}, sr \in {"", "Fork"},
        u \in {Empty, ServiceUrl(ServiceName(name))} }

ManifestFiles ==
    {NoFile, TornFile}
    \cup { [state |-> "ok",
            content |-> json_dump([EmptyManifest EXCEPT !.projects = [n \in {"alpha"} |-> a]])] :
            a \in LedgerRecords("alpha") }
    \cup { [state |-> "ok",
            content |-> json_dump([EmptyManifest EXCEPT
                            !.projects = [n \in {"alpha", "beta"} |-> IF n = "alpha" THEN a ELSE b]])] :
            a \in LedgerRecords("alpha"), b \in LedgerRecords("beta") }

\* no run has left anything behind in memory
FreshProcess ==
    /\ fault = "none"
    /\ manifest = EmptyManifest
    /\ tier = 0
    /\ classification = NoClassification
    /\ files = {}
    /\ error = Empty
    /\ deploy_url = Empty
    /\ log = <<>>
    /\ web = <<>>
    /\ saves = 0
    /\ output = <<>>
    /\ extracted = NoJson
    /\ after_kill = FALSE
    /\ handled = NoProjects
    /\ sticky0 = {}

InitReset ==
    /\ \E c \in Configurations :
        /\ SKIP_EXISTING = c[1]
        /\ DRY_RUN = c[2]
        /\ RENDER_API_KEY = c[3]
    /\ disk \in ManifestFiles
    /\ cloned = {}
    /\ run = 1
    /\ pc = "load"
    /\ repos = <<>>
    /\ idx = 0
    /\ project = NoProject
    /\ render_yaml = AbsentDesc
    /\ attempt = 0
    /\ max_retries = DefaultMaxRetries
    /\ FreshProcess

SpecReset == InitReset /\ [][MainLoad]_vars

\* ------------------------------------------------------------------------
\* deploy_with_retry on its own: any retry budget, any descriptor
\* ------------------------------------------------------------------------
AllDescriptors ==
    {AbsentDesc, MalformedDesc, EmptyDesc, NoServicesDesc, EmptyServicesDesc, StaticDesc, NodeDesc,
     WorkerDesc}

\* the record process_repo hands to deploy_with_retry
PushedProject(repo) ==
    [Project(repo.name, repo.html_url, DescriptionOr(repo.description, repo), repo.language, repo.fork)
        EXCEPT !.status = COMPLETED]

InitCall(budgets, descriptors) ==
    /\ SKIP_EXISTING = TRUE
    /\ DRY_RUN \in BOOLEAN
    /\ RENDER_API_KEY \in BOOLEAN
    /\ disk = NoFile
    /\ run = 1
    /\ pc = "dwr_deploy"
    /\ \E repo \in {RepoAlpha, RepoBeta} :
        /\ repos = <<repo>>
        /\ project = PushedProject(repo)
        /\ cloned = {repo.name}
    /\ idx = 1
    /\ render_yaml \in descriptors
    /\ attempt = 1
    /\ max_retries \in budgets
    /\ FreshProcess

InitRetry == InitCall(1..MaxRetriesBound, {AbsentDesc, NodeDesc, MalformedDesc})

\* the loop body under every answer of the provider
RetryDeploy == DeployAttempt(RetryPostScripts)

NextRetry ==
    \/ RetryDeploy
    \/ DwrFix
    \/ DwrPush

SpecRetry == InitRetry /\ [][NextRetry]_vars

\* the retry loop with its steps scheduled until it has returned
SpecRetryLive == SpecRetry /\ WF_vars(NextRetry)

\* ------------------------------------------------------------------------
\* deploy_to_render on its own: one call, any descriptor, any answers
\* ------------------------------------------------------------------------
InitDeploy == InitCall({1}, AllDescriptors)

\* one call of the deployment client
DeployCall == DeployAttempt(AllPostScripts)

SpecDeploy == InitDeploy /\ [][DeployCall]_vars

\* ------------------------------------------------------------------------
\* classify_repo_from_api inside process_repo on its own: one repository
\* of any primary language, any file listing of up to MaxFiles entries
\* ------------------------------------------------------------------------
MaxFiles == 4

\* repo["language"] as the listing request may give it
Languages == {"", "HTML", "JavaScript", "Python", "C#"}

\* the entries a file tree may hold
TreeItems ==
    { Blob(<<"index", ".html">>), Blob(<<"about", ".html">>), Blob(<<"style", ".css">>),
      Blob(<<"package", ".json">>), Blob(<<"server", ".js">>), Blob(<<"Dockerfile">>),
      Blob(<<"render", ".yaml">>), Blob(<<"README", ".md">>), Blob(<<"Program", ".cs">>),
      Blob(<<"main", ".py">>), Blob(<<"util", ".py">>), Blob(<<"src/", "App", ".jsx">>),
      Dir(<<"src/">>) }

\* resp.json().get("tree", [])
FileTrees == { t \in SUBSET TreeItems : Cardinality(t) <= MaxFiles }

\* the tree request answered 200 on the main branch
ListingWorlds ==
    { [main |-> TreeAnswer(FALSE, 200, t), master |-> TreeAnswer(FALSE, 404, {})] :
        t \in FileTrees }

\* process_repo has built the record, passed the skip checks and found
\* no candidate URL live
InitClassify ==
    /\ SKIP_EXISTING = TRUE
    /\ DRY_RUN \in BOOLEAN
    /\ RENDER_API_KEY = TRUE
    /\ disk = NoFile
    /\ cloned = {}
    /\ run = 1
    /\ pc = "classify"
    /\ fault = "none"
    /\ manifest = EmptyManifest
    /\ \E language \in Languages :
        LET repo == Repo("alpha", language, <<>>, FALSE, FALSE, 12, <<>>, <<>>)
            candidates == get_candidate_urls(repo)
        IN  /\ repos = <<repo>>
            /\ project = Project(repo.name, repo.html_url, repo.description, repo.language, repo.fork)
            /\ log = [i \in 1..Len(candidates) |-> Event("probe", candidates[i], 0)]
            /\ web = [i \in 1..Len(candidates) |-> DeadPage]
    /\ idx = 1
    /\ tier = 0
    /\ classification = NoClassification
    /\ files = {}
    /\ render_yaml = AbsentDesc
    /\ attempt = 0
    /\ max_retries = DefaultMaxRetries
    /\ error = Empty
    /\ deploy_url = Empty
    /\ saves = 0
    /\ output = <<>>
    /\ extracted = NoJson
    /\ after_kill = FALSE
    /\ handled = PutProject(NoProjects, "alpha", "pipeline")
    /\ sticky0 = {}

\* Phase 1 under every file listing
ClassifyListing == ClassifyIn(ListingWorlds)

SpecClassify == InitClassify /\ [][ClassifyListing]_vars

\* ------------------------------------------------------------------------
\* find_existing_deployment inside process_repo on its own: every
\* candidate answering with any of ProbePages
\* ------------------------------------------------------------------------
ProbePages ==
    { ProbeResponse(TRUE, 0, <<>>),
      LivePage,
      DeadPage,
      ProbeResponse(FALSE, 400, << Segment("text", <<>>, 3000) >>),
      ProbeResponse(FALSE, 399, << Segment("text", <<>>, 100) >>),
      ProbeResponse(FALSE, 200, << Segment("ws", <<>>, 50), Segment("text", <<>>, 99),
                                   Segment("ws", <<>>, 50) >>),
      ProbeResponse(FALSE, 200, << Segment("ws", <<>>, 10), Segment("text", <<>>, 30),
                                   Segment("ws", <<>>, 60), Segment("text", <<>>, 30) >>),
      ProbeResponse(FALSE, 200, << Segment("text", <<>>, 500),
                                   Segment("phrase", <<"SUSPENDED">>, 9),
                                   Segment("text", <<>>, 500) >>),
      ProbeResponse(FALSE, 200, << Segment("text", <<>>, 1995),
                                   Segment("phrase", <<"Not", "Found">>, 9) >>) }

\* process_repo has built the record and passed the skip checks
InitProbe ==
    /\ SKIP_EXISTING = TRUE
    /\ DRY_RUN \in BOOLEAN
    /\ RENDER_API_KEY = TRUE
    /\ disk = NoFile
    /\ cloned = {}
    /\ run = 1
    /\ pc = "probe"
    /\ \E listing \in { <<RepoAlpha>>, <<RepoBeta>>, LongNamed } :
        \E i \in 1..Len(listing) :
            LET repo == listing[i]
            IN  /\ repos = listing
                /\ idx = i
                /\ project = Project(repo.name, repo.html_url, repo.description, repo.language,
                                     repo.fork)
                /\ handled = PutProject(NoProjects, repo.name, "pipeline")
    /\ render_yaml = AbsentDesc
    /\ attempt = 0
    /\ max_retries = DefaultMaxRetries
    /\ fault = "none"
    /\ manifest = EmptyManifest
    /\ tier = 0
    /\ classification = NoClassification
    /\ files = {}
    /\ error = Empty
    /\ deploy_url = Empty
    /\ log = <<>>
    /\ web = <<>>
    /\ saves = 0
    /\ output = <<>>
    /\ extracted = NoJson
    /\ after_kill = FALSE
    /\ sticky0 = {}

\* Phase 0 under every answer of the candidates
ProbeAny == ProbeIn([1..Len(get_candidate_urls(CurRepo)) -> ProbePages])

SpecProbe == InitProbe /\ [][ProbeAny]_vars

\* ------------------------------------------------------------------------
\* extract_json_from_output on its own: every output of up to MaxOutput
\* pieces
\* ------------------------------------------------------------------------
MaxOutput == 5

OutputPieces == {"{", "}", "k", "1", "x", "fence"}

Outputs == UNION { [1..n -> OutputPieces] : n \in 0..MaxOutput }

InitExtract ==
    /\ SKIP_EXISTING = TRUE
    /\ DRY_RUN = FALSE
    /\ RENDER_API_KEY = TRUE
    /\ disk = NoFile
    /\ cloned = {}
    /\ run = 1
    /\ pc = "extract"
    /\ repos = <<>>
    /\ idx = 0
    /\ project = NoProject
    /\ render_yaml = AbsentDesc
    /\ attempt = 0
    /\ max_retries = DefaultMaxRetries
    /\ fault = "none"
    /\ manifest = EmptyManifest
    /\ tier = 0
    /\ classification = NoClassification
    /\ files = {}
    /\ error = Empty
    /\ deploy_url = Empty
    /\ log = <<>>
    /\ web = <<>>
    /\ saves = 0
    /\ after_kill = FALSE
    /\ handled = NoProjects
    /\ sticky0 = {}
    /\ output \in Outputs
    /\ extracted = NoJson

\* extract_json_from_output(output)
Extract ==
    /\ pc = "extract"
    /\ extracted' = extract_json_from_output(output)
    /\ pc' = "extracted"
    /\ UNCHANGED <<config, disk, cloned, run, fault, manifest, repos, idx, saves, after_kill,
                   handled, sticky0, output>>
    /\ LocalsUnchanged

SpecExtract == InitExtract /\ [][Extract]_vars

\* ========================================================================
\* Properties
\* ========================================================================
\* positions of the events named ev in the trace of the current repository
EventsAt(ev) == { i \in 1..Len(log) : log[i].ev = ev }

CountEv(ev) == Cardinality(EventsAt(ev))

\* the text says "rate limit", in any letter case
HasRateLimitIndicator(text) ==
    \E i \in 1..(Len(text) - 1) : LowerTok(text[i]) = "rate" /\ LowerTok(text[i + 1]) = "limit"

\* the sweep is inside process_repo / deploy_with_retry or about to store
InPass ==
    pc \in {"entry", "probe", "live_classify", "classify", "clone", "complete", "push",
            "dwr_deploy", "dwr_fix", "dwr_push", "dwr_ret", "returned"}

AfterSweep == pc \in {"gif", "portfolio", "save_final", "done"}

\* the manifest file holds the record main has in memory for name
DiskHolds(name) ==
    /\ disk.state = "ok"
    /\ name \in DOMAIN json_load(disk.content).projects
    /\ name \in DOMAIN manifest.projects
    /\ json_load(disk.content).projects[name] = manifest.projects[name]

\* ------------------------------------------------------------------------
\* C1: once the reset pass has run on the loaded manifest, every entry that
\* was Deployed or AlreadyLive is unchanged in every field, and every entry
\* that was Failed, Pending, Skipped, Analysing or Completed is Pending
\* with empty error and empty skip reason.
C1_ResetPass ==
    pc = "save_reset" =>
        LET before == json_load(disk.content).projects
            after == manifest.projects
        IN  /\ DOMAIN after = DOMAIN before
            /\ \A n \in DOMAIN before :
                /\ before[n].status \in {DEPLOYED, ALREADY_LIVE} => after[n] = before[n]
                /\ before[n].status \in {FAILED, PENDING, SKIPPED, ANALYSING, COMPLETED} =>
                      /\ after[n].status = PENDING
                      /\ after[n].error = ""
                      /\ after[n].skip_reason = ""

\* the pass has run on a file holding a Deployed entry that carries an
\* error text and a Failed entry
C1_ResetApplied ==
    /\ pc = "save_reset"
    /\ disk.state = "ok"
    /\ \E n, m \in DOMAIN json_load(disk.content).projects :
        /\ json_load(disk.content).projects[n].status = DEPLOYED
        /\ json_load(disk.content).projects[n].error # ""
        /\ json_load(disk.content).projects[m].status = FAILED
        /\ json_load(disk.content).projects[m].error # ""
        /\ manifest.projects[m].status = PENDING

\* ------------------------------------------------------------------------
\* C2: with skip-existing enabled, a repository the ledger records as
\* Deployed or AlreadyLive is returned from the ledger with every field
\* unchanged and without any external step, the record stored back is the
\* same, and the record on disk is never altered again by the pipeline
\* (only the capture phase touches its gif_url).
C2_AtCachedEntry ==
    /\ pc = "entry"
    /\ SKIP_EXISTING
    /\ CurRepo.name \in DOMAIN manifest.projects
    /\ manifest.projects[CurRepo.name].status \in {DEPLOYED, ALREADY_LIVE}

SameButGif(a, b) == [a EXCEPT !.gif_url = Empty] = [b EXCEPT !.gif_url = Empty]

C2_CachedRecordUnchanged ==
    [][ /\ (C2_AtCachedEntry /\ pc' # "killed") =>
              /\ pc' = "returned"
              /\ project' = manifest.projects[CurRepo.name]
              /\ log' = <<>>
              /\ cloned' = cloned
              /\ manifest' = manifest
        /\ (/\ pc = "returned"
            /\ pc' # "killed"
            /\ SKIP_EXISTING
            /\ project.name \in DOMAIN manifest.projects
            /\ manifest.projects[project.name].status \in {DEPLOYED, ALREADY_LIVE}) =>
              manifest'.projects[project.name] = manifest.projects[project.name]
        /\ (SKIP_EXISTING /\ disk.state = "ok" /\ disk'.state = "ok") =>
              \A n \in DOMAIN json_load(disk.content).projects :
                  json_load(disk.content).projects[n].status \in {DEPLOYED, ALREADY_LIVE} =>
                      /\ n \in DOMAIN json_load(disk'.content).projects
                      /\ SameButGif(json_load(disk'.content).projects[n], json_load(disk.content).projects[n])
      ]_vars

\* a later run has returned the Deployed record of an earlier run from the ledger
C2_CachedReturn ==
    /\ pc = "returned"
    /\ SKIP_EXISTING
    /\ run >= 2
    /\ project.status = DEPLOYED
    /\ project.completed_at < run
    /\ project.name \in DOMAIN handled
    /\ handled[project.name] = "cached"
    /\ log = <<>>
    /\ web = <<>>

\* ------------------------------------------------------------------------
\* C3: whatever the outcome of an external step of one repository, the
\* sweep is not aborted: main is never left by an exception raised while
\* a repository is processed.
C3_NoFailureAbortsSweep ==
    pc = "crashed" => fault \in {"load", "listing"}

\* ------------------------------------------------------------------------
\* C4: before repository i+1 is begun the manifest file holds the record
\* of every repository processed so far, one save per repository; the
\* file written when process_repo returns holds the returned record; and
\* the manifest is saved once more at the end of the run.
C4_SavedAfterEachRepository ==
    /\ [](/\ InPass /\ run >= 1 /\ repos # <<>> =>
              /\ saves = idx
              /\ \A i \in 1..(idx - 1) : DiskHolds(repos[i].name)
          /\ AfterSweep =>
              /\ saves >= Len(repos) + 1
              /\ \A i \in 1..Len(repos) : DiskHolds(repos[i].name)
          /\ pc = "done" =>
              /\ disk.state = "ok"
              /\ json_load(disk.content) = manifest
              /\ saves \in {Len(repos) + 2, Len(repos) + 3})
    /\ [][ (pc = "returned" /\ pc' # "killed") =>
              /\ disk'.state = "ok"
              /\ project.name \in DOMAIN json_load(disk'.content).projects
              /\ json_load(disk'.content).projects[project.name] = project
         ]_vars

\* the second repository is begun with the first one's Deployed record on disk
C4_SecondRepositoryBegins ==
    /\ pc = "entry"
    /\ idx = 2
    /\ saves = 2
    /\ DiskHolds(repos[1].name)
    /\ json_load(disk.content).projects[repos[1].name].status = DEPLOYED
    /\ json_load(disk.content).projects[repos[1].name].completed_at = run

\* ------------------------------------------------------------------------
\* C5: a run started after a kill processes every listed repository again:
\* through the pipeline when its entry on disk was not Deployed or
\* AlreadyLive, and (skip-existing enabled) from the ledger when it was.
C5_RestartReprocesses ==
    (after_kill /\ pc \in {"done", "crashed"} /\ fault # "listing") =>
        /\ pc = "done"
        /\ \A i \in 1..Len(repos) :
            LET n == repos[i].name
            IN  /\ n \in DOMAIN handled
                /\ n \notin sticky0 => handled[n] = "pipeline"
                /\ (SKIP_EXISTING /\ n \in sticky0) => handled[n] = "cached"

\* ------------------------------------------------------------------------
\* C6: within one repository's processing a deployment request is
\* submitted only when the latest push of the working copy has succeeded.
C6_DeployOnlyAfterSuccessfulPush ==
    \A i \in EventsAt("post") :
        \E j \in EventsAt("push") :
            /\ j < i
            /\ log[j].n = 1
            /\ \A k \in EventsAt("push") : k < i => k <= j

\* ------------------------------------------------------------------------
\* C7: in deploy_with_retry the agent is asked for a fix only right after
\* a deployment attempt whose error text has no rate-limit indicator; an
\* attempt whose error text has one ends the call with no URL; and when
\* the POSTs of an attempt are answered 429 three times in a row the call
\* returns absent with the error "Rate limit exceeded after retries",
\* the agent not having been invoked when this was the first attempt.
C7_NoSelfHealingOnRateLimit ==
    /\ \A i \in EventsAt("fix") :
        /\ i > 1
        /\ log[i - 1].ev = "deploy_result"
        /\ ~HasRateLimitIndicator(log[i - 1].arg)
    /\ \A i \in EventsAt("deploy_result") :
        HasRateLimitIndicator(log[i].arg) =>
            /\ i = Len(log)
            /\ pc = "dwr_ret"
            /\ deploy_url = Empty
    /\ \A c \in EventsAt("deploy_call") :
        (/\ c + 5 <= Len(log)
         /\ \A k \in {1, 3, 5} : log[c + k].ev = "post" /\ log[c + k].n = 429) =>
            /\ Len(log) = c + 7
            /\ log[c + 7] = Event("deploy_result", RateLimitExceeded, 0)
            /\ HasRateLimitIndicator(error)
            /\ error = RateLimitExceeded
            /\ pc = "dwr_ret"
            /\ deploy_url = Empty
            /\ log[c].n = 1 => CountEv("fix") = 0

\* the first attempt of a call with a budget of two or more was answered
\* 429 three times and the call has returned
C7_ThreeTimes429 ==
    /\ pc = "dwr_ret"
    /\ max_retries >= 2
    /\ Len(log) = 8
    /\ log[1] = Event("deploy_call", <<>>, 1)
    /\ \A k \in {2, 4, 6} : log[k].ev = "post" /\ log[k].n = 429
    /\ error = RateLimitExceeded
    /\ deploy_url = Empty
    /\ CountEv("fix") = 0

\* ------------------------------------------------------------------------
\* C8: with the default budget of 2, after a first deployment attempt that
\* failed with a non-empty error text without rate-limit indicator, the
\* agent is invoked once, with a prompt embedding that very text; when it
\* reports success one push and exactly one more deployment attempt
\* follow, when it reports failure no further attempt is made.
C8_FirstResult ==
    CHOOSE d \in 1..Len(log) :
        /\ log[d].ev = "deploy_result"
        /\ \A j \in 1..(d - 1) : log[j].ev # "deploy_result"

C8_FirstAttemptFailed ==
    /\ max_retries = DefaultMaxRetries
    /\ pc \in {"dwr_deploy", "dwr_fix", "dwr_push", "dwr_ret", "returned", "crashed"}
    /\ EventsAt("deploy_result") # {}
    /\ log[C8_FirstResult].n = 0
    /\ log[C8_FirstResult].arg # Empty
    /\ ~HasRateLimitIndicator(log[C8_FirstResult].arg)

C8_SelfHealingOnce ==
    (/\ pc \in {"dwr_deploy", "dwr_fix", "dwr_push", "dwr_ret", "returned", "crashed"}
     /\ max_retries = DefaultMaxRetries
     /\ \E i \in 1..Len(log) : log[i].ev = "deploy_result") =>
        LET d == C8_FirstResult
            fixes == CountEv("fix")
            calls == CountEv("deploy_call")
        IN  (log[d].n = 0 /\ log[d].arg # Empty /\ ~HasRateLimitIndicator(log[d].arg)) =>
            /\ fixes <= 1
            /\ calls <= 2
            /\ \E c \in EventsAt("deploy_call") :
                /\ log[c].n = 1
                /\ { i \in EventsAt("deploy_call") : i < d } = {c}
            /\ pc = "dwr_fix" => Len(log) = d
            /\ pc # "dwr_fix" =>
                /\ Len(log) > d
                /\ log[d + 1].ev = "fix"
                /\ log[d + 1].arg = log[d].arg
                /\ fixes = 1
                /\ log[d + 1].n = 0 =>
                    /\ pc \in {"dwr_ret", "returned"}
                    /\ Len(log) = d + 1
                    /\ calls = 1
                /\ log[d + 1].n = 1 =>
                    /\ pc = "dwr_push" => Len(log) = d + 1 /\ calls = 1
                    /\ pc # "dwr_push" => log[d + 2].ev = "push"
                    /\ pc = "dwr_deploy" => Len(log) = d + 2 /\ calls = 1
                    /\ pc \in {"dwr_ret", "returned", "crashed"} =>
                        /\ log[d + 3] = Event("deploy_call", <<>>, 2)
                        /\ calls = 2

\* the default budget was used up: first attempt refused with status 400,
\* one successful fix whose prompt carries the error text, a push, and a
\* second attempt
C8_FixThenSecondAttempt ==
    /\ pc = "dwr_ret"
    /\ max_retries = DefaultMaxRetries
    /\ C8_FirstAttemptFailed
    /\ log[C8_FirstResult].arg = <<"Render", "API", "400", ":", "Invalid", "serviceDetails">>
    /\ log[C8_FirstResult + 1] = Event("fix", log[C8_FirstResult].arg, 1)
    /\ CountEv("deploy_call") = 2
    /\ CountEv("fix") = 1

\* ------------------------------------------------------------------------
\* C9: for every budget max_retries >= 1 and all outcomes, deploy_with_retry
\* makes at most max_retries deployment attempts and at most
\* max_retries - 1 fix invocations, a successful attempt is the last thing
\* it does and makes it return the URL, it returns absent in every other
\* case, and it always comes to an end.
C9_Bounds ==
    /\ max_retries >= 1
    /\ attempt <= max_retries
    /\ CountEv("deploy_call") <= max_retries
    /\ CountEv("fix") <= max_retries - 1
    /\ \A i \in EventsAt("deploy_result") :
        log[i].n = 1 =>
            /\ i = Len(log)
            /\ pc = "dwr_ret"
            /\ deploy_url # Empty
    /\ pc = "dwr_ret" =>
        /\ Len(log) > 0
        /\ deploy_url # Empty <=>
              (log[Len(log)].ev = "deploy_result" /\ log[Len(log)].n = 1)

C10_PostsBefore(i) == { j \in EventsAt("post") : j <= i }

C10_PostLoopBounded ==
    /\ CountEv("deploy_call") <= 1
    /\ CountEv("post") <= 3
    /\ \A i \in EventsAt("post") :
        /\ C10_PostsBefore(i) # {i} =>
            /\ log[i - 1].ev = "wait"
            /\ log[i - 2].ev = "post"
            /\ log[i - 2].n = 429
        /\ log[i].n = 429 =>
            /\ Len(log) > i
            /\ log[i + 1].ev = "wait"
            /\ log[i + 1].n = 30 * Cardinality(C10_PostsBefore(i))
            /\ \A j \in C10_PostsBefore(i) : log[j].n = 429
        /\ (log[i].n # 429 /\ log[i].n \notin 200..299) =>
            /\ Len(log) = i + 1
            /\ log[i + 1].ev = "deploy_result"
            /\ log[i + 1].n = 0
            /\ log[i + 1].arg = error
            /\ log[i].n = 0 => error = log[i].arg
            /\ log[i].n # 0 =>
                /\ error # Empty
                /\ error = <<"Render", "API", ToString(log[i].n), ":">> \o log[i].arg
            /\ deploy_url = Empty
            /\ pc = "dwr_ret"
    /\ Cardinality({ i \in EventsAt("post") : log[i].n = 429 }) = 3 =>
        /\ log[Len(log)] = Event("deploy_result", RateLimitExceeded, 0)
        /\ error = RateLimitExceeded
        /\ deploy_url = Empty
        /\ pc = "dwr_ret"

\* a call answered 429 three times: three POSTs, waits of 30, 60 and 90
\* seconds, the rate-limit-exhausted error
C10_ThreePostsThreeWaits ==
    /\ pc = "dwr_ret"
    /\ CountEv("post") = 3
    /\ Len(log) = 8
    /\ log[3] = Event("wait", <<>>, 30)
    /\ log[5] = Event("wait", <<>>, 60)
    /\ log[7] = Event("wait", <<>>, 90)
    /\ error = RateLimitExceeded
    /\ deploy_url = Empty

\* ------------------------------------------------------------------------
\* C11: whenever the provider answers the deployment POST with a status
\* code from 200 to 299, the call of deploy_to_render ends there with
\* success: the URL derived from the service name and an empty error.
C11_Every2xxIsSuccess ==
    \A i \in EventsAt("post") :
        log[i].n \in 200..299 =>
            /\ Len(log) = i + 1
            /\ log[i + 1] = Event("deploy_result", Empty, 1)
            /\ error = Empty
            /\ deploy_url = ServiceUrl(ServiceName(project.name))

\* ------------------------------------------------------------------------
\* C12: while a repository classified as tier 0 is processed the agent is
\* never invoked, neither for the remediation nor for a fix of a failed
\* deployment.
C12_Tier0NeverInvokesAgent ==
    (/\ pc \in {"complete", "push", "dwr_deploy", "dwr_fix", "dwr_push", "dwr_ret", "returned",
                "crashed"}
     /\ CountEv("tree") > 0
     /\ tier = 0) =>
        /\ CountEv("agent") = 0
        /\ CountEv("fix") = 0

\* ------------------------------------------------------------------------
\* C13: when the agent invoked for a tier 1 or tier 2 repository reports
\* failure (timeout, tool not found, non-zero exit), process_repo returns
\* at once: the status is Failed with a non-empty error, the agent was
\* invoked that one time only, and no push and no deployment request is
\* made for the repository.
C13_AgentFailureIsFinal ==
    \A i \in EventsAt("agent") :
        log[i].n = 0 =>
            /\ i = Len(log)
            /\ pc = "returned"
            /\ tier \in {1, 2}
            /\ project.status = FAILED
            /\ project.error # ""
            /\ project.deploy_url = Empty
            /\ CountEv("agent") = 1
            /\ CountEv("fix") = 0
            /\ CountEv("push") = 0
            /\ CountEv("deploy_call") = 0
            /\ CountEv("post") = 0

\* a tier 1 repository has been returned Failed after the agent's failure
C13_AgentFailed ==
    /\ pc = "returned"
    /\ tier = 1
    /\ Len(log) > 0
    /\ log[Len(log)] = Event("agent", TierPrompt(1), 0)
    /\ project.status = FAILED
    /\ project.error = "Completion failed"

\* ------------------------------------------------------------------------
\* C14: when the clone of the working copy, or the update of an existing
\* working copy, fails, the repository is returned Failed with a
\* non-empty error and no later phase (remediation, agent, push,
\* deployment) runs for it.
C14_CloneOrUpdateFailureIsFinal ==
    \A i \in EventsAt("clone") \cup EventsAt("pull") :
        log[i].n = 0 =>
            /\ i = Len(log)
            /\ pc = "returned"
            /\ project.status = FAILED
            /\ project.error # ""

\* ------------------------------------------------------------------------
\* C15: a repository that went through remediation, push and
\* deploy_with_retry is returned Deployed with the returned URL when
\* deploy_with_retry returned one, and Completed with an empty deploy URL
\* when it returned none; it is never returned Failed.
C15_DeployedIffUrl ==
    /\ (pc \in {"dwr_deploy", "dwr_fix", "dwr_push", "dwr_ret"}) =>
        /\ project.status = COMPLETED
        /\ project.deploy_url = Empty
    /\ (pc = "returned" /\ CountEv("deploy_call") > 0) =>
        /\ CountEv("push") > 0
        /\ project.status \in {DEPLOYED, COMPLETED}
        /\ project.status = DEPLOYED <=> deploy_url # Empty
        /\ project.deploy_url = deploy_url
        /\ project.error = ""
        /\ deploy_url # Empty <=> log[Len(log)] = Event("deploy_result", Empty, 1)

\* a repository is returned Completed, without URL, after a deployment
\* that the provider refused with rate limits
C15_ReturnedCompleted ==
    /\ pc = "returned"
    /\ CountEv("deploy_call") = 1
    /\ error = RateLimitExceeded
    /\ deploy_url = Empty
    /\ project.status = COMPLETED
    /\ project.deploy_url = Empty
    /\ project.completed_at = run

\* ------------------------------------------------------------------------
\* C16: the skip checks come first: a repository on the deny-list, a fork,
\* an archived or a zero-size repository is returned Skipped with the
\* reason of the first check that matches (deny-list, fork, archived,
\* zero-size), also when the ledger records it as Deployed or AlreadyLive.
C16_FirstMatchingCheck(repo) ==
    IF LowerTok(repo.name) \in SKIP_REPOS THEN "In skip list"
    ELSE IF repo.fork THEN "Fork"
    ELSE IF repo.archived THEN "Archived"
    ELSE IF repo.size = 0 THEN "Empty repo"
    ELSE ""

C16_SkipChecksFirst ==
    (pc = "returned" /\ C16_FirstMatchingCheck(CurRepo) # "") =>
        /\ project.status = SKIPPED
        /\ project.skip_reason = C16_FirstMatchingCheck(CurRepo)

\* ------------------------------------------------------------------------
\* C17: while a repository that matches an explicit skip check (deny-list,
\* fork, archived, zero-size) is processed, nothing external is done for
\* it: no liveness probe, no file-tree fetch, no clone or pull, no agent
\* invocation, no push and no deployment request.
C17_SkippedWithoutExternalSteps ==
    (InPass /\ C16_FirstMatchingCheck(CurRepo) # "") =>
        /\ pc \in {"entry", "returned"}
        /\ log = <<>>
        /\ web = <<>>
        /\ tier = 0
        /\ render_yaml = AbsentDesc
        /\ attempt = 0

\* a fork has been returned Skipped with reason "Fork" and an empty trace
C17_ForkSkipped ==
    /\ pc = "returned"
    /\ CurRepo.fork
    /\ project.name = CurRepo.name
    /\ project.status = SKIPPED
    /\ project.skip_reason = "Fork"
    /\ log = <<>>
    /\ web = <<>>

\* ------------------------------------------------------------------------
\* C18: when the liveness probe finds a candidate URL live, the repository
\* becomes AlreadyLive with that URL as deploy URL, the category and the
\* tech stack of the classifier are recorded, and nothing else is done for
\* it: no clone or pull, no agent invocation, no push, no deployment
\* request.  When no candidate is live all of them have been probed.
C18_ProbesOnly(k) ==
    /\ k >= 1
    /\ k <= Len(get_candidate_urls(CurRepo))
    /\ Len(log) >= k
    /\ \A i \in 1..k : log[i] = Event("probe", get_candidate_urls(CurRepo)[i], 0)

C18_LiveRepositoryRecorded ==
    /\ pc = "live_classify" =>
        /\ C18_ProbesOnly(Len(log))
        /\ project.status = ALREADY_LIVE
        /\ project.deploy_url = log[Len(log)].arg
    /\ pc = "classify" =>
        /\ C18_ProbesOnly(Len(log))
        /\ Len(log) = Len(get_candidate_urls(CurRepo))
        /\ project.status = PENDING
    /\ (pc = "returned" /\ project.status = ALREADY_LIVE /\ log # <<>>) =>
        LET k == CountEv("probe")
        IN  /\ C18_ProbesOnly(k)
            /\ Len(log) = k + 1
            /\ log[k + 1].ev = "tree"
            /\ project.deploy_url = get_candidate_urls(CurRepo)[k]
            /\ project.deploy_url # Empty
            /\ \E world \in TreeWorlds(CurRepo.name) :
                files = FetchFiles(world.main, world.master)
            /\ classification = classify_repo_from_api(CurRepo, files)
            /\ classification.file_count = log[k + 1].n
            /\ project.tech_stack = classification.tech_stack
            /\ project.category = classification.category

\* repository "beta" was found live at its second candidate URL and
\* returned AlreadyLive with the classifier's tags
C18_FoundLive ==
    /\ pc = "returned"
    /\ CurRepo.name = "beta"
    /\ project.status = ALREADY_LIVE
    /\ CountEv("probe") = 2
    /\ Len(log) = 3
    /\ project.deploy_url = <<"https://", "mathew-harvey", ".github.io/", "beta">>
    /\ project.category = "web-app"
    /\ project.tech_stack # <<>>
    /\ project.name \notin cloned

\* ------------------------------------------------------------------------
\* C19: with DRY_RUN on, nothing is cloned or pulled, the agent is never
\* invoked, nothing is pushed and no deployment request is sent, for any
\* repository (the portfolio's deploy_to_render call sends none either);
\* a repository that passes the skip checks, is not live and has more
\* than one file is returned Completed with the category and tech stack
\* of the classifier, and that is what the ledger holds for it.
C19_Classified(name, record) ==
    \E world \in TreeWorlds(name) :
        LET classified ==
                classify_repo_from_api(CHOOSE r \in {repos[i] : i \in 1..Len(repos)} : r.name = name,
                                       FetchFiles(world.main, world.master))
        IN  /\ classified.file_count > 1
            /\ record.tech_stack = classified.tech_stack
            /\ record.category = classified.category

C19_DryRunCatalogOnly ==
    DRY_RUN =>
        /\ cloned = {}
        /\ \A i \in 1..Len(log) : log[i].ev \in {"probe", "tree"}
        /\ pc \notin {"clone", "complete", "push", "dwr_deploy", "dwr_fix", "dwr_push", "dwr_ret"}
        /\ \A answers \in MainPostScripts :
            deploy_to_render(RENDER_API_KEY, DRY_RUN, PortfolioProject, StaticDesc, answers).trace = <<>>
        /\ (/\ pc = "returned"
            /\ log # <<>>
            /\ project.status # ALREADY_LIVE
            /\ log[Len(log)].ev = "tree"
            /\ log[Len(log)].n > 1) =>
                /\ project.status = COMPLETED
                /\ project.completed_at = run
                /\ project.deploy_url = Empty
                /\ classification = classify_repo_from_api(CurRepo, files)
                /\ classification.file_count = log[Len(log)].n
                /\ project.tech_stack = classification.tech_stack
                /\ project.category = classification.category
                /\ C19_Classified(project.name, project)
        /\ (InPass \/ AfterSweep) =>
            \A i \in 1..Len(repos) :
                (i < idx \/ AfterSweep) =>
                    /\ repos[i].name \in DOMAIN manifest.projects
                    /\ manifest.projects[repos[i].name].status \in {SKIPPED, ALREADY_LIVE, COMPLETED}
                    /\ manifest.projects[repos[i].name].status = COMPLETED =>
                        C19_Classified(repos[i].name, manifest.projects[repos[i].name])

\* a dry run has catalogued repository "beta": Completed, tagged, saved,
\* and nothing was cloned
C19_Catalogued ==
    /\ DRY_RUN
    /\ pc = "done"
    /\ cloned = {}
    /\ "beta" \in DOMAIN manifest.projects
    /\ manifest.projects["beta"].status = COMPLETED
    /\ manifest.projects["beta"].category = "web-app"
    /\ manifest.projects["beta"].tech_stack # <<>>
    /\ DiskHolds("beta")

\* ------------------------------------------------------------------------
\* C20: whenever the file listing holds at most two files, the classifier
\* returns tier 2, whatever the other signals are (an index.html, a
\* package manifest, a descriptor, the language).
C20_NearEmptyIsTier2 ==
    pc \in {"returned", "clone"} =>
        /\ classification = classify_repo_from_api(CurRepo, files)
        /\ classification.file_count = Cardinality(files)
        /\ tier = classification.tier
        /\ Cardinality(files) <= 2 => classification.tier = 2

\* the listing {index.html, style.css} has been classified: a static
\* site by every other signal, and tier 2
C20_StaticPairIsTier2 ==
    /\ pc = "clone"
    /\ files = {<<"index", ".html">>, <<"style", ".css">>}
    /\ classification.deploy_type = "static"
    /\ classification.has_index_html
    /\ ~classification.has_package_json
    /\ classification.tier = 2

\* ------------------------------------------------------------------------
\* C21: the listing {index.html, style.css}, with no package manifest, is
\* classified tier 0 with deploy type static (so that process_repo takes
\* the quick fix and the agent is not invoked).
C21_StaticPairIsTier0 ==
    (/\ pc \in {"returned", "clone"}
     /\ files = {<<"index", ".html">>, <<"style", ".css">>}) =>
        /\ classification.deploy_type = "static"
        /\ classification.tier = 0
        /\ tier = 0

\* ------------------------------------------------------------------------
\* C22: the candidates are probed in order; the search returns (True, url)
\* for the first candidate that is live and requests no later candidate;
\* it returns (False, "") only when every candidate was probed and none
\* is live.
C22_ShortCircuit ==
    pc \in {"live_classify", "classify"} =>
        LET candidates == get_candidate_urls(CurRepo)
            lives == { i \in 1..Len(candidates) : check_url_live(web[i]) }
            requested == IF lives = {} THEN Len(candidates)
                         ELSE CHOOSE f \in lives : \A i \in lives : f <= i
        IN  /\ Len(log) = requested
            /\ \A i \in 1..requested : log[i] = Event("probe", candidates[i], 0)
            /\ lives # {} => /\ pc = "live_classify"
                             /\ project.status = ALREADY_LIVE
                             /\ project.deploy_url = candidates[requested]
            /\ lives = {} => /\ pc = "classify"
                             /\ project.status = PENDING
                             /\ project.deploy_url = Empty

\* the second and the third candidate are live: the second was returned
\* and the third never requested
C22_SecondWinsThirdUnqueried ==
    /\ pc = "live_classify"
    /\ ~check_url_live(web[1])
    /\ check_url_live(web[2])
    /\ check_url_live(web[3])
    /\ Len(log) = 2
    /\ project.deploy_url = get_candidate_urls(CurRepo)[2]

\* ------------------------------------------------------------------------
\* C30: a probed candidate is judged live if and only if no request
\* exception occurred, the status is below 400, the first 2000 characters
\* of the body hold at least 100 non-whitespace characters, and that
\* case-folded body holds none of the error signals.
RECURSIVE C30_NonWhitespaceLen(_)
C30_NonWhitespaceLen(body) ==
    IF body = <<>> THEN 0
    ELSE (IF Head(body).kind = "ws" THEN 0 ELSE Head(body).len) + C30_NonWhitespaceLen(Tail(body))

C30_LiveIff ==
    pc \in {"live_classify", "classify"} =>
        \A i \in 1..Len(log) :
            LET judged_live == (pc = "live_classify" /\ i = Len(log))
                body == LowerBody(TextPrefix(web[i].text, ProbeCut))
            IN  judged_live <=> (/\ ~web[i].raised
                                 /\ web[i].status < 400
                                 /\ C30_NonWhitespaceLen(body) >= MinContent
                                 /\ ~HasSignal(body))

\* ------------------------------------------------------------------------
\* C23: in every ledger state the pipeline produces, in memory and on
\* disk, in every run, a record that is Deployed or AlreadyLive has a
\* non-empty deploy_url.
C23_FinalHasUrl ==
    /\ \A n \in DOMAIN manifest.projects :
        manifest.projects[n].status \in {DEPLOYED, ALREADY_LIVE} =>
            manifest.projects[n].deploy_url # Empty
    /\ disk.state = "ok" =>
        \A n \in DOMAIN json_load(disk.content).projects :
            json_load(disk.content).projects[n].status \in {DEPLOYED, ALREADY_LIVE} =>
                json_load(disk.content).projects[n].deploy_url # Empty
    /\ (pc = "returned" /\ project.status \in {DEPLOYED, ALREADY_LIVE}) =>
        project.deploy_url # Empty

\* the saved ledger of a later run holds a Deployed and an AlreadyLive
\* record, each with its URL
C23_BothOnDisk ==
    /\ run > 1
    /\ disk.state = "ok"
    /\ \E n, m \in DOMAIN json_load(disk.content).projects :
        /\ json_load(disk.content).projects[n].status = DEPLOYED
        /\ json_load(disk.content).projects[n].deploy_url = ServiceUrl(ServiceName(n))
        /\ json_load(disk.content).projects[m].status = ALREADY_LIVE
        /\ json_load(disk.content).projects[m].deploy_url = get_candidate_urls(RepoAlpha)[2]

\* ------------------------------------------------------------------------
\* C24: in every ledger state the pipeline produces, in memory and on
\* disk, right after the reset pass included, a Skipped record has a
\* non-empty skip_reason and a Failed record has a non-empty error.
C24_ReasonGiven(record) ==
    /\ record.status = SKIPPED => record.skip_reason # ""
    /\ record.status = FAILED => record.error # ""

C24_SkippedAndFailedExplained ==
    /\ \A n \in DOMAIN manifest.projects : C24_ReasonGiven(manifest.projects[n])
    /\ disk.state = "ok" =>
        \A n \in DOMAIN json_load(disk.content).projects : C24_ReasonGiven(json_load(disk.content).projects[n])
    /\ pc = "returned" => C24_ReasonGiven(project)

\* the saved ledger holds a Skipped record with its reason and a Failed
\* record with its error
C24_BothOnDisk ==
    /\ disk.state = "ok"
    /\ \E n, m \in DOMAIN json_load(disk.content).projects :
        /\ json_load(disk.content).projects[n].status = SKIPPED
        /\ json_load(disk.content).projects[n].skip_reason = "Empty or README-only repo"
        /\ json_load(disk.content).projects[m].status = FAILED
        /\ json_load(disk.content).projects[m].error = "Completion failed"

C26_Has(ext) == \E f \in files : f[Len(f)] = ext

C26_TableTier ==
    LET html == C26_Has(".html")
        index == \E f \in files : Len(f) >= 2 /\ f[Len(f) - 1] = "index" /\ f[Len(f)] = ".html"
        manifest_file == <<"package", ".json">> \in files
        csharp == C26_Has(".cs") \/ C26_Has(".csproj")
        docker == <<"dockerfile">> \in files
        server == files \cap ServerFiles # {}
        react == C26_Has(".jsx") \/ C26_Has(".tsx") \/ \E f \in files : HasReactIn(f)
        static == classification.deploy_type = "static"
    IN  CASE static /\ index /\ ~manifest_file -> 0
          [] static /\ html /\ ~manifest_file -> 0
          [] <<"render", ".yaml">> \in files /\ <<"readme", ".md">> \in files /\ manifest_file -> 1
          [] csharp \/ docker -> 2
          [] manifest_file /\ ~server /\ ~react -> 2
          [] OTHER -> 1

C26_TierByPrecedence ==
    (pc \in {"returned", "clone"} /\ Cardinality(files) > 2) =>
        /\ classification.file_count = Cardinality(files)
        /\ classification.tier = C26_TableTier
        /\ tier = classification.tier

\* a listing that matches two rows, descriptor + README + package
\* manifest and Dockerfile, has been classified by the earlier row
C26_DescriptorBeforeDocker ==
    /\ pc = "clone"
    /\ files = { <<"render", ".yaml">>, <<"readme", ".md">>, <<"package", ".json">>, <<"dockerfile">> }
    /\ classification.tier = 1

\* ------------------------------------------------------------------------
\* C27: for every listing the classifier's deploy type is the first
\* matching rule of: C# -> docker; Python and server -> python; package
\* manifest and server -> node; package manifest and React -> node; any
\* HTML -> static; package manifest -> node; Python -> python; else static.
C27_TableDeployType ==
    LET manifest_file == <<"package", ".json">> \in files
        csharp == C26_Has(".cs") \/ C26_Has(".csproj")
        python == C26_Has(".py")
        server == files \cap ServerFiles # {}
        react == C26_Has(".jsx") \/ C26_Has(".tsx") \/ \E f \in files : HasReactIn(f)
    IN  CASE csharp -> "docker"
          [] python /\ server -> "python"
          [] manifest_file /\ server -> "node"
          [] manifest_file /\ react -> "node"
          [] C26_Has(".html") -> "static"
          [] manifest_file -> "node"
          [] python -> "python"
          [] OTHER -> "static"

C27_DeployTypeByPrecedence ==
    pc \in {"returned", "clone"} => classification.deploy_type = C27_TableDeployType

\* a listing with a package manifest, a server entrypoint and an HTML
\* page has been classified node, not static
C27_ServerBeforeHtml ==
    /\ pc = "clone"
    /\ files = { <<"package", ".json">>, <<"server", ".js">>, <<"index", ".html">> }
    /\ classification.deploy_type = "node"

\* ------------------------------------------------------------------------
\* C28: for every listing and primary language the classifier's category
\* is the first matching rule of: React or (server and package manifest)
\* -> web-app; server without HTML -> api; HTML without package manifest
\* -> static-site; Python without HTML -> cli-tool; C# -> api; else by the
\* primary language (static-site for HTML, CSS, JavaScript), default other.
C28_TableCategory ==
    LET manifest_file == <<"package", ".json">> \in files
        html == C26_Has(".html")
        csharp == C26_Has(".cs") \/ C26_Has(".csproj")
        python == C26_Has(".py")
        server == files \cap ServerFiles # {}
        react == C26_Has(".jsx") \/ C26_Has(".tsx") \/ \E f \in files : HasReactIn(f)
    IN  CASE react \/ (server /\ manifest_file) -> "web-app"
          [] server /\ ~html -> "api"
          [] html /\ ~manifest_file -> "static-site"
          [] python /\ ~html -> "cli-tool"
          [] csharp -> "api"
          [] CurRepo.language \in {"HTML", "CSS", "JavaScript"} -> "static-site"
          [] OTHER -> "other"

C28_CategoryByPrecedence ==
    pc \in {"returned", "clone"} => classification.category = C28_TableCategory

\* a JavaScript repository whose listing matches no file rule has been
\* classified by its language
C28_ByLanguage ==
    /\ pc = "clone"
    /\ CurRepo.language = "JavaScript"
    /\ files = { <<"package", ".json">>, <<"readme", ".md">>, <<"style", ".css">> }
    /\ classification.category = "static-site"
    /\ project.category = "static-site"

\* ------------------------------------------------------------------------
\* C29: the tech stack holds the file-evidence tags in the order HTML,
\* CSS, JavaScript, React, Python, C#; the primary language is put in
\* front only when none of those tags already stands for it; no
\* technology is named twice.
C29_EvidenceTags ==
    LET react == C26_Has(".jsx") \/ C26_Has(".tsx") \/ \E f \in files : HasReactIn(f)
        script == C26_Has(".js") \/ C26_Has(".jsx") \/ C26_Has(".ts") \/ C26_Has(".tsx")
        csharp == C26_Has(".cs") \/ C26_Has(".csproj")
    IN  (IF C26_Has(".html") THEN <<"HTML">> ELSE <<>>)
        \o (IF C26_Has(".css") THEN <<"CSS">> ELSE <<>>)
        \o (IF script THEN <<"JavaScript">> ELSE <<>>)
        \o (IF react THEN <<"React">> ELSE <<>>)
        \o (IF C26_Has(".py") THEN <<"Python">> ELSE <<>>)
        \o (IF csharp THEN <<"C#">> ELSE <<>>)

C29_TechStackWithoutRepeats ==
    pc \in {"returned", "clone"} =>
        LET tags == C29_EvidenceTags
            language == CurRepo.language
            represented == \E i \in 1..Len(tags) : LowerTok(tags[i]) = LowerTok(language)
            stack == classification.tech_stack
        IN  /\ stack = IF language # "" /\ ~represented
                      THEN <<Capitalize(LowerTok(language))>> \o tags
                      ELSE tags
            /\ \A i, j \in 1..Len(stack) : LowerTok(stack[i]) = LowerTok(stack[j]) => i = j

\* ------------------------------------------------------------------------
\* C31: a network failure of the listing request, of a file-tree request or
\* of a probe request is caught inside its call: no run is ended by an
\* exception that left fetch_all_repos, classify_repo_from_api or
\* check_url_live.
C31_NetworkFailureNeverAborts == fault \notin {"listing", "tree", "probe"}

\* ------------------------------------------------------------------------
\* C32: a repository that passed the skip checks and was found not live is
\* returned Skipped with a reason when its classified file count is at most
\* one, before any clone, pull, agent invocation, push or deployment; with
\* two files or more the classification step never returns it Skipped.
C32_EmptyRepositorySkipped ==
    pc \in {"returned", "clone"} =>
        /\ classification.file_count = Cardinality(files)
        /\ Cardinality(files) <= 1 =>
              /\ pc = "returned"
              /\ project.status = SKIPPED
              /\ project.skip_reason # ""
              /\ cloned = {}
              /\ \A i \in 1..Len(log) : log[i].ev \in {"probe", "tree"}
        /\ Cardinality(files) >= 2 => project.status # SKIPPED

\* a listing of README.md alone has been returned Skipped
C32_ReadmeOnlySkipped ==
    /\ pc = "returned"
    /\ files = {<<"readme", ".md">>}
    /\ project.status = SKIPPED
    /\ project.skip_reason = "Empty or README-only repo"
    /\ log[Len(log)] = Event("tree", <<>>, 1)

\* ------------------------------------------------------------------------
\* C33: the deployment request is a service deployment (build and start
\* commands, runtime, plan) whenever the descriptor of the working copy
\* declares for its service a runtime other than static, and a static-site
\* deployment (build command, publish path) in every other case, the
\* missing descriptor included.
C33_ServiceIffNonStaticRuntime ==
    LET built == build_render_payload(project, render_yaml)
        declared == /\ render_yaml.kind = "service"
                    /\ render_yaml.runtime \notin {"static", NoneVal}
    IN  (pc \in {"dwr_ret", "dwr_fix"} /\ RENDER_API_KEY /\ ~built.raised) =>
            IF declared
            THEN /\ built.payload.type = "web_service"
                 /\ built.payload.runtime = render_yaml.runtime
                 /\ built.payload.startCommand # NoneVal
                 /\ built.payload.buildCommand # NoneVal
                 /\ built.payload.plan = "free"
            ELSE /\ built.payload.type = "static_site"
                 /\ built.payload.publishPath # NoneVal
                 /\ built.payload.buildCommand # NoneVal

\* ------------------------------------------------------------------------
\* C34: every record of the ledger whose status is other than Pending
\* (Skipped, AlreadyLive, Completed, Deployed or Failed) has its
\* completed_at timestamp set.
C34_CompletedAtSet ==
    \A n \in DOMAIN manifest.projects :
        manifest.projects[n].status \in {SKIPPED, ALREADY_LIVE, COMPLETED, DEPLOYED, FAILED} =>
            manifest.projects[n].completed_at # 0

\* ------------------------------------------------------------------------
\* C35: in every state of the ledger reached from an empty manifest, in
\* memory and on disk, a record with a non-empty deploy URL has status
\* Deployed or AlreadyLive.
C35_UrlOnlyOnFinal ==
    /\ \A n \in DOMAIN manifest.projects :
          manifest.projects[n].deploy_url # Empty =>
              manifest.projects[n].status \in {DEPLOYED, ALREADY_LIVE}
    /\ disk.state = "ok" =>
          LET ledger == json_load(disk.content).projects
          IN  \A n \in DOMAIN ledger :
                  ledger[n].deploy_url # Empty => ledger[n].status \in {DEPLOYED, ALREADY_LIVE}

\* the second run has made its reset pass over a ledger holding a Deployed
\* record with its URL and a record without one
C35_SecondRunAfterReset ==
    /\ run = 2
    /\ pc = "fetch"
    /\ disk.state = "ok"
    /\ \E n, m \in DOMAIN manifest.projects :
        /\ manifest.projects[n].status = DEPLOYED
        /\ manifest.projects[n].deploy_url = ServiceUrl(ServiceName(n))
        /\ manifest.projects[m].status = PENDING
        /\ manifest.projects[m].deploy_url = Empty
        /\ manifest.projects[m].completed_at # 0
    /\ json_load(disk.content).projects = manifest.projects

\* ------------------------------------------------------------------------
\* C36: when no fenced block of the output parses, the extraction returns
\* the parse of the longest brace-balanced {...} span of the output that is
\* valid JSON whenever there is one, wherever it lies (also after an
\* unmatched closing brace), and returns None when there is none.
C36_LongestValidSpan ==
    LET fences == { i \in 1..Len(output) : output[i] = "fence" }
        no_block == \A i, j \in fences :
                        i < j => json_loads(SubSeq(output, i + 1, j - 1)).raised
        spans == { sp \in (1..Len(output)) \X (1..Len(output)) :
                     /\ sp[1] < sp[2]
                     /\ output[sp[1]] = "{"
                     /\ ~json_loads(SubSeq(output, sp[1], sp[2])).raised }
        longest == { sp \in spans : \A other \in spans : other[2] - other[1] <= sp[2] - sp[1] }
    IN  (pc = "extracted" /\ no_block) =>
            IF spans = {}
            THEN extracted = NoJson
            ELSE /\ extracted.found
                 /\ \E sp \in longest :
                        extracted.value = json_loads(SubSeq(output, sp[1], sp[2])).value

\* ------------------------------------------------------------------------
\* C37: a crash of the process at any point, the middle of a manifest save
\* included, leaves a manifest file that the next run can load and that
\* still holds every Deployed or AlreadyLive record of the last completed
\* save.
C37_CrashLeavesLoadableLedger ==
    [][pc' = "killed" =>
          LET before == load_manifest(disk)
              after == load_manifest(disk')
          IN  /\ ~after.raised
              /\ \A n \in DOMAIN before.manifest.projects :
                    before.manifest.projects[n].status \in {DEPLOYED, ALREADY_LIVE} =>
                        /\ n \in DOMAIN after.manifest.projects
                        /\ after.manifest.projects[n] = before.manifest.projects[n]]_vars

\* ------------------------------------------------------------------------
\* C38: two repositories of the listing with different names are given
\* different deployment service names, hence different deploy URLs and
\* different provider-pattern candidates for the liveness probe, and no
\* repository is probed at the service URL of another one.
C38_ServicePerRepository ==
    pc \in {"classify", "live_classify"} =>
        \A j \in 1..Len(repos) :
            repos[j].name # CurRepo.name =>
                /\ ServiceName(CurRepo.name) # ServiceName(repos[j].name)
                /\ ServiceUrl(ServiceName(CurRepo.name)) # ServiceUrl(ServiceName(repos[j].name))
                /\ get_candidate_urls(CurRepo)[3] # get_candidate_urls(repos[j])[3]
                /\ \A k \in 1..Len(log) :
                      log[k].ev = "probe" => log[k].arg # ServiceUrl(ServiceName(repos[j].name))

\* ------------------------------------------------------------------------
\* C39: in deploy_with_retry the agent is invoked for a fix only after a
\* deployment POST of this repository was submitted and answered by the
\* provider with an error; never when the attempt failed before any POST.
C39_FixOnlyAfterRejectedPost ==
    \A k \in 1..Len(log) :
        log[k].ev = "fix" =>
            \E p \in 1..(k - 1) :
                /\ log[p].ev = "post"
                /\ log[p].n \notin {0, 200, 201}

\* ------------------------------------------------------------------------
\* C40: process_repo never returns a record with status Pending or
\* Analysing.  Once the sweep has reached the end of the listing, every
\* listed repository has a ledger entry with status Skipped, AlreadyLive,
\* Completed, Deployed or Failed; while the sweep is under way an entry
\* with status Pending or Analysing belongs to a repository that has not
\* been stored again since the reset pass.
C40_Settled == {SKIPPED, ALREADY_LIVE, COMPLETED, DEPLOYED, FAILED}

C40_NoPendingAfterProcessing ==
    /\ pc = "returned" => project.status \in C40_Settled
    /\ AfterSweep =>
          \A i \in 1..Len(repos) :
              /\ repos[i].name \in DOMAIN manifest.projects
              /\ manifest.projects[repos[i].name].status \in C40_Settled
    /\ (InPass \/ AfterSweep) =>
          \A n \in DOMAIN manifest.projects :
              manifest.projects[n].status \in {PENDING, ANALYSING} =>
                  \A i \in 1..Len(repos) : repos[i].name = n => i >= idx

\* the second run has stored its first repository again and the entry of
\* the next one is still Pending from the reset pass
C40_FirstStoredSecondPending ==
    /\ run = 2
    /\ pc = "entry"
    /\ idx = 2
    /\ manifest.projects[repos[1].name].status \in C40_Settled
    /\ repos[2].name \in DOMAIN manifest.projects
    /\ manifest.projects[repos[2].name].status = PENDING

====
